---- MODULE Spec2Model ----
(***************************************************************************)
(* Release lifecycle of release-monorepo-action: the orchestrator `run`    *)
(* (main.ts) driving the GitHubService gateway (github.ts) against a       *)
(* remote made of the main branch, the manifest, release branches, pull    *)
(* requests, tags and releases.  Line numbers of main.ts and github.ts are *)
(* those of src/unnamed/part_007 and src/unnamed/part_006.                 *)
(*                                                                         *)
(* One workflow run is one action.  Exceptions are modelled by the field   *)
(* `err` of the world record: once set, the remaining gateway calls of the *)
(* run are skipped until the top-level catch of run() reports it.          *)
(***************************************************************************)
EXTENDS Integers, Sequences, FiniteSets, TLC

\* ---------------------------------------------------------------- bounds
MaxPushes == 1
MaxPRs == 2
MaxFail == 3
MaxFaults == 1
MaxStale == 1

\* ------------------------------------------------------ program constants
Lookback == 50

\* ------------------------------------------------------------ vocabulary
Targets == {"main", "canary"}
PkgOrder == <<".", "pkg/a", "lib">>
AllPkgs == {PkgOrder[i] : i \in 1..Len(PkgOrder)}
ManifestFile == ".release-manifest.json"
OtherFile == "docs/readme"
Files == {"pkg/a/f", "lib/f", OtherFile, ManifestFile}
NoVer == [v |-> <<>>, rc |-> 0]
NoBranch == [base |-> 0 - 1]
MainRef == <<"refs/heads/main">>
FeatureRef == <<"feature">>
ReleaseMe == <<"release-me">>
Released == <<"released">>
PrereleaseLabel == <<"Prerelease">>
Undefined == "undefined"

\* `release-${target}`
ReleaseBranch(target) == <<"release", target>>

\* `release-target:${target}`
TargetLabel(target) == <<"release-target", target>>

\* path.basename on the package paths of the model
basename(p) == IF p = "pkg/a" THEN "a" ELSE p

\* file.filename.startsWith(packagePath)
StartsWith(file, p) ==
    \/ p = "pkg/a" /\ file = "pkg/a/f"
    \/ p = "lib" /\ file = "lib/f"
    \/ p = "lib" /\ file = "lib-utils/f"
    \/ p = "lib-utils" /\ file = "lib-utils/f"

Min(a, b) == IF a < b THEN a ELSE b

\* ------------------------------------------------------------- versions
\* "M.m.p" is <<M, m, p>>; a prerelease "M.m.p-rc.N" is a record with rc = N.
Ver(v, rc) == [v |-> v, rc |-> rc]

\* semver order on plain versions
VerLess(a, b) ==
    LET x == a.v
        y == b.v
    IN \/ x[1] < y[1]
       \/ x[1] = y[1] /\ x[2] < y[2]
       \/ x[1] = y[1] /\ x[2] = y[2] /\ x[3] < y[3]

VerLeq(x, y) == x = y \/ VerLess(x, y)

\* ------------------------------------------------------ commit classifier
CONVENTIONAL_COMMIT_TYPES ==
    [feat |-> "minor", fix |-> "patch", docs |-> "none", style |-> "none",
     refactor |-> "patch", perf |-> "patch", test |-> "none", chore |-> "none",
     revert |-> "patch", ci |-> "none", build |-> "none"]

\* A line of a commit message, split where the regular expression of
\* parseConventionalCommit splits it: the leading word, the parenthesised
\* scope ("": none, "()": empty parentheses), the "!" , the ": " and the rest
Line(type, scope, bang, sep, subject) ==
    [type |-> type, scope |-> scope, bang |-> bang, sep |-> sep, subject |-> subject]

\* A line of plain text
Plain(text) == Line("", "", FALSE, FALSE, text)

\* The types of the alternation in conventionalCommitRegex
RegexTypes ==
    {"feat", "fix", "docs", "style", "refactor", "perf", "test", "chore", "revert",
     "ci", "build"}

\* The named group scope: the text between the parentheses
ScopeName(scope) == IF scope = "(core)" THEN "core" ELSE Undefined

\* parseConventionalCommit reading the header in the first non-empty line
parseConventionalCommitHeaderLine(message) ==
    LET heads == {i \in 1..Len(message) : message[i] # Plain("")}
        first == CHOOSE i \in heads : \A j \in heads : i <= j
        line == message[first]
        match == /\ heads # {}
                 /\ line.type \in RegexTypes
                 /\ line.scope # "()"
                 /\ line.sep
                 /\ line.subject # ""
    IN IF ~match
       THEN [type |-> "chore", scope |-> Undefined, breaking |-> FALSE,
             message |-> message, hash |-> ""]
       ELSE [type |-> line.type,
             scope |-> ScopeName(line.scope),
             breaking |-> line.bang, message |-> <<Plain(line.subject)>>, hash |-> ""]

\* version.ts parseConventionalCommit.  A message is the sequence of its
\* lines; the regular expression has no flags, so ^ and $ are the ends of
\* the message and "." matches no line break: only a message of one line
\* can match.
parseConventionalCommit(message) ==
    LET line == message[1]
        match == /\ Len(message) = 1
                 /\ line.type \in RegexTypes
                 /\ line.scope # "()"
                 /\ line.sep
                 /\ line.subject # ""
    IN IF ~match
       THEN [type |-> "chore", scope |-> Undefined, breaking |-> FALSE,
             message |-> message, hash |-> ""]
       ELSE [type |-> line.type,
             scope |-> ScopeName(line.scope),
             breaking |-> line.bang, message |-> <<Plain(line.subject)>>, hash |-> ""]

RECURSIVE BumpFold(_, _, _)
BumpFold(commits, i, highestBump) ==
    IF i > Len(commits) THEN highestBump
    ELSE IF commits[i].breaking THEN "major"
    ELSE LET bump == CONVENTIONAL_COMMIT_TYPES[commits[i].type]
             next == IF \/ bump = "major"
                        \/ bump = "minor" /\ highestBump # "major"
                        \/ bump = "patch" /\ highestBump = "none"
                     THEN bump ELSE highestBump
         IN BumpFold(commits, i + 1, next)

\* The bump of the last commit of the list alone
determineVersionBumpLast(commits) ==
    IF Len(commits) = 0 THEN "none" ELSE BumpFold(commits, Len(commits), "none")

determineVersionBump(commits) == BumpFold(commits, 1, "none")

\* main.ts 125-135: the new version computed from `latest`
BumpVersion(currentVersion, versionBump) ==
    LET c == currentVersion.v
    IN IF versionBump = "major" THEN Ver(<<c[1] + 1, 0, 0>>, 0)
       ELSE IF versionBump = "minor" THEN Ver(<<c[1], c[2] + 1, 0>>, 0)
       ELSE IF versionBump = "patch" THEN Ver(<<c[1], c[2], c[3] + 1>>, 0)
       ELSE currentVersion

\* ------------------------------------------------------ generateChangelog
\* The keys of `sections` in insertion order
SectionTitles ==
    <<"Features", "Fixes", "Documentation", "Refactors", "Performance", "Tests",
      "Chores", "Reverts", "Build", "CI">>

\* switch (commit.type)
SectionOf(type) ==
    CASE type = "feat" -> "Features"
      [] type = "fix" -> "Fixes"
      [] type = "docs" -> "Documentation"
      [] type = "refactor" -> "Refactors"
      [] type = "perf" -> "Performance"
      [] type = "test" -> "Tests"
      [] type = "chore" -> "Chores"
      [] type = "revert" -> "Reverts"
      [] type = "build" -> "Build"
      [] type = "ci" -> "CI"
      [] OTHER -> "Chores"

\* The list item of a commit: "- " and the message, after the marker
\* "**BREAKING CHANGE:** " when the commit is breaking
Item(commit) == [marker |-> commit.breaking, message |-> commit.message]

\* sections[section].push for the commits of one section, in input order
RECURSIVE SectionItems(_, _, _, _)
SectionItems(commits, title, i, acc) ==
    IF i > Len(commits) THEN acc
    ELSE SectionItems(commits, title, i + 1,
                      IF SectionOf(commits[i].type) = title
                      THEN Append(acc, Item(commits[i])) ELSE acc)

\* Object.entries(sections).filter(items.length > 0).map(...)
RECURSIVE ChangelogFold(_, _, _)
ChangelogFold(commits, k, acc) ==
    IF k > Len(SectionTitles) THEN acc
    ELSE ChangelogFold(commits, k + 1,
            IF SectionItems(commits, SectionTitles[k], 1, <<>>) = <<>> THEN acc
            ELSE Append(acc, [title |-> SectionTitles[k],
                              items |-> SectionItems(commits, SectionTitles[k], 1, <<>>)]))

\* generateChangelog with the items of a breaking commit left unmarked
generateChangelogUnmarked(commits) ==
    LET log == ChangelogFold(commits, 1, <<>>)
    IN [k \in 1..Len(log) |->
          [log[k] EXCEPT !.items = [i \in 1..Len(@) |-> [@[i] EXCEPT !.marker = FALSE]]]]

\* generateChangelog with the commits of a type outside the switch dropped
generateChangelogDropsUnknown(commits) ==
    ChangelogFold(SelectSeq(commits, LAMBDA c : c.type \in RegexTypes \ {"style"}), 1, <<>>)

\* version.ts generateChangelog: the sections of the changelog in order,
\* each with its title and its list items
generateChangelog(commits) == ChangelogFold(commits, 1, <<>>)

\* ---------------------------------------------------- calculateNewVersion
\* A version text: an optional leading "v", the dot-separated numbers, and
\* the "-rc.N" suffixes in order (<<>>: none)
Text(lead, nums, pre) == [lead |-> lead, nums |-> nums, pre |-> pre]

\* semver.parse: null unless the text is [v]MAJOR.MINOR.PATCH[-prerelease]
semverParse(text) ==
    IF Len(text.nums) = 3
    THEN [ok |-> TRUE, major |-> text.nums[1], minor |-> text.nums[2],
          patch |-> text.nums[3]]
    ELSE [ok |-> FALSE, major |-> 0, minor |-> 0, patch |-> 0]

\* calculateNewVersion with the lower components kept
calculateNewVersionKeepsLower(currentVersion, bump, isPreRelease, preReleaseNumber) ==
    LET version == semverParse(currentVersion)
        newVersion ==
            CASE bump = "major" ->
                   Text("", <<version.major + 1, version.minor, version.patch>>, <<>>)
              [] bump = "minor" ->
                   Text("", <<version.major, version.minor + 1, version.patch>>, <<>>)
              [] bump = "patch" ->
                   Text("", <<version.major, version.minor, version.patch + 1>>, <<>>)
              [] OTHER -> currentVersion
    IN IF ~version.ok THEN [err |-> "Invalid version", value |-> currentVersion]
       ELSE [err |-> "none", value |-> newVersion]

\* version.ts calculateNewVersion: err is the message of the error thrown
\* ("none": the call returned value)
calculateNewVersion(currentVersion, bump, isPreRelease, preReleaseNumber) ==
    LET version == semverParse(currentVersion)
        newVersion ==
            CASE bump = "major" -> Text("", <<version.major + 1, 0, 0>>, <<>>)
              [] bump = "minor" -> Text("", <<version.major, version.minor + 1, 0>>, <<>>)
              [] bump = "patch" ->
                   Text("", <<version.major, version.minor, version.patch + 1>>, <<>>)
              [] OTHER -> currentVersion
        rc == IF preReleaseNumber = 0 THEN 1 ELSE preReleaseNumber
    IN IF ~version.ok THEN [err |-> "Invalid version", value |-> currentVersion]
       ELSE [err |-> "none",
             value |-> IF isPreRelease
                       THEN [newVersion EXCEPT !.pre = Append(@, rc)]
                       ELSE newVersion]

\* ------------------------------------------------------------ the world
\* The remote (manifest on main, history of main, releases, tags, pull
\* requests, release branches), the runner's working copy (fs) and the
\* run-local bookkeeping (err, k, log, cut, outcome).
\*   k   : the k-th write request of the run is rejected by the remote with
\*         an error that is not an "already exists" conflict (0: none is)
\*   log : the gateway write operations the run performed, in order
\*   cut : one entry per tag/release request of createRelease

Entry(op, label, pr) == [op |-> op, label |-> label, pr |-> pr]

Note(w, op, label, pr) == [w EXCEPT !.log = Append(@, Entry(op, label, pr))]

\* An Error is thrown.  `err` is the kind of the value thrown ("Error": an
\* instance of Error, "value": any other value), `message` the message of
\* the Error.
ThrowError(w, message) == [w EXCEPT !.err = "Error", !.message = message, !.k = 0]

RequestFailed == "Request failed"

\* The error of a request or a lookup of the program
Throw(w) == ThrowError(w, RequestFailed)

\* The injected rejection of a write request, with the value w.rejection
Reject(w) ==
    [w EXCEPT !.err = w.rejection,
              !.message = IF w.rejection = "Error" THEN RequestFailed ELSE "",
              !.k = 0, !.injected = TRUE]

Spend(w) == [w EXCEPT !.k = IF @ > 1 THEN @ - 1 ELSE 0]

Rejected(w) == w.k = 1

\* core.setFailed
setFailed(w, message) ==
    [w EXCEPT !.failed = @ + 1, !.reported = Append(@, message)]

\* The outputs of the action (README "Outputs"), none of them set
OutputNames == {"releases-created", "version", "prerelease", "versions"}

NoOutputs == [name \in OutputNames |-> [set |-> FALSE]]

\* The element of a one-element set: Only({F(x) : x \in {e}}) is F(e), with e
\* evaluated once
Only(S) == CHOOSE r \in S : TRUE

\* core.setOutput
setOutput(w, name, value) == [w EXCEPT !.out[name] = [set |-> TRUE, value |-> value]]

\* --------------------------------------------------------- gateway reads

\* github.ts getPullRequestLabels
getPullRequestLabels(w, ev) ==
    IF ~ev.isPullRequest \/ ev.pullRequestNumber = 0 THEN {}
    ELSE w.prs[ev.pullRequestNumber].labels

HeadRef(w, ev) == IF ev.isPullRequest THEN w.prs[ev.pullRequestNumber].head ELSE MainRef

BranchExists(w, target) == w.branches[target] # NoBranch

\* github.ts isDeletedReleaseBranch
isDeletedReleaseBranch(w, ev, target) ==
    IF HeadRef(w, ev) # ReleaseBranch(target) THEN FALSE
    ELSE ~BranchExists(w, target)

\* github.ts getManifestFromMain: the manifest of main, {} on any failure
EmptyManifest == [p \in {} |-> NoVer]

getManifestFromMain(w, soft) == IF soft = "manifest" THEN EmptyManifest ELSE w.manifest

\* The commits `base...headRef` of the compare request: the commits of the
\* head ref that the base does not reach.  A base is a position on main
\* (at) and, for a tag put on the merge commit of an open PR, that PR (pr).
HeadExists(w, ev) ==
    LET h == HeadRef(w, ev)
    IN IF h = MainRef \/ h = FeatureRef THEN TRUE
       ELSE \E t \in Targets : h = ReleaseBranch(t) /\ BranchExists(w, t)

SubSeqFrom(s, from, to) == IF from > to THEN <<>> ELSE SubSeq(s, from, to)

CompareCommits(w, ev, at) ==
    LET h == HeadRef(w, ev)
    IN IF h = MainRef THEN SubSeqFrom(w.history, at.at + 1, Len(w.history))
       ELSE IF h = FeatureRef
       THEN LET pr == w.prs[ev.pullRequestNumber]
            IN SubSeqFrom(w.history, at.at + 1, pr.base)
                  \o (IF at.pr = ev.pullRequestNumber THEN <<>> ELSE pr.commits)
       ELSE LET b == CHOOSE t \in Targets : h = ReleaseBranch(t)
            IN SubSeqFrom(w.history, at.at + 1, w.branches[b].base)
                  \o <<w.branches[b].commit>>

\* The commit a tag points at (its position on main)
TagAt(w, tag) == LET r == CHOOSE r \in w.tags : r.name = tag IN [at |-> r.at, pr |-> r.pr]

TagExists(w, tag) == \E r \in w.tags : r.name = tag

ReleaseExists(w, tag) == \E i \in 1..Len(w.releases) : w.releases[i].tag = tag

RECURSIVE LastNonPrerelease(_, _)
\* releases.find(r => !r.prerelease) on the list sorted by creation, newest first
LastNonPrerelease(releases, i) ==
    IF i = 0 THEN 0
    ELSE IF ~releases[i].prerelease THEN i
    ELSE LastNonPrerelease(releases, i - 1)

IsRelevant(commit) == determineVersionBump(<<commit>>) # "none"

\* The lookup as it would be if the newest release of any kind were the anchor
getAllCommitsSinceLastReleaseAnyRelease(w, ev) ==
    LET i == Len(w.releases)
        totalCommits == Len(w.history) + 1
        lookbackCount == Min(Lookback, totalCommits)
        at == IF i # 0 THEN TagAt(w, w.releases[i].tag)
              ELSE [at |-> Len(w.history) - (lookbackCount - 1), pr |-> 0]
    IN SelectSeq(CompareCommits(w, ev, at), IsRelevant)

\* getAllCommitsSinceLastRelease 667-686: the base of the compare request
CompareBase(w) ==
    LET i == LastNonPrerelease(w.releases, Len(w.releases))
        totalCommits == Len(w.history) + 1
        lookbackCount == Min(Lookback, totalCommits)
    IN IF i # 0 THEN TagAt(w, w.releases[i].tag)
       ELSE [at |-> Len(w.history) - (lookbackCount - 1), pr |-> 0]

\* The commits of the compare request, the irrelevant ones included
getAllCommitsSinceLastReleaseUnfiltered(w, ev) == CompareCommits(w, ev, CompareBase(w))

\* github.ts getAllCommitsSinceLastRelease (one result page)
getAllCommitsSinceLastRelease(w, ev) ==
    SelectSeq(CompareCommits(w, ev, CompareBase(w)), IsRelevant)

\* github.ts getCommitsSinceLastRelease
getCommitsSinceLastRelease(packagePath, allCommits) ==
    LET isSubPackage == packagePath # "."
        Touches(commit) == \E f \in commit.files : StartsWith(f, packagePath)
    IN IF Len(allCommits) = 0 THEN <<>>
       ELSE IF ~isSubPackage THEN allCommits
       ELSE SelectSeq(allCommits, Touches)

\* The tag name of a package version: `v<version>` for the root package,
\* `<basename>-v<version>` otherwise (createRelease 580-584).
TagName(path, version) ==
    [pkg |-> IF path = "." THEN "" ELSE basename(path), ver |-> version]

\* rcRegex.test(tag_name) for the unanchored regular expression
\* `${packagePath}-v${baseVersion}-rc\.(\d+)`: the tag text must contain the
\* package PATH followed by "-v<base>-rc.N".  A tag text starts with the
\* package BASENAME (nothing for the root package), and the path "." is the
\* regex wildcard, which matches the last character of any basename.
RcMatches(tag, packagePath, baseVersion) ==
    /\ tag.ver # NoVer
    /\ tag.ver.rc > 0
    /\ tag.ver.v = baseVersion.v
    /\ IF packagePath = "." THEN tag.pkg # "" ELSE tag.pkg = packagePath

MaxOf(S) == CHOOSE x \in S : \A y \in S : y <= x

\* github.ts getLatestRcVersion
getLatestRcVersion(w, packagePath, baseVersion, soft) ==
    LET rcs == {w.releases[i].tag.ver.rc : i \in
                  {j \in 1..Len(w.releases) :
                      RcMatches(w.releases[j].tag, packagePath, baseVersion)}}
    IN IF soft = "rc" THEN 1
       ELSE IF rcs = {} THEN 1 ELSE MaxOf(rcs) + 1

\* github.ts getPullRequestFromCommit: the most recently merged PR associated
\* with the commit, null (0) when there is none or the lookup fails
getPullRequestFromCommit(w, sha, soft) ==
    IF soft = "prFromCommit" THEN 0
    ELSE IF sha = 0 \/ sha > Len(w.history) THEN 0
    ELSE LET n == w.history[sha].pr
         IN IF n # 0 /\ w.prs[n].merged THEN n ELSE 0

\* A PR title: `kind` names the template, the other fields its holes
Title(kind, name, ver, target) == [kind |-> kind, name |-> name, ver |-> ver, target |-> target]

\* github.ts generateReleasePRTitle
generateReleasePRTitle(changes) ==
    IF Len(changes) = 1
    THEN IF changes[1].path = "."
         THEN Title("chore: release <version>", "", changes[1].newVersion, "")
         ELSE Title("chore: release <name>@<version>", changes[1].name,
                    changes[1].newVersion, "")
    ELSE Title("chore: release <target>", "", NoVer, changes[1].releaseTarget)

\* pulls.list({state, labels, head})
PullsList(w, state, labels, head) ==
    {n \in 1..Len(w.prs) :
        /\ w.prs[n].state = state
        /\ labels \subseteq w.prs[n].labels
        /\ head = <<>> \/ w.prs[n].head = head}

RECURSIVE ManifestChanges(_, _, _)
ManifestChanges(manifest, i, acc) ==
    IF i > Len(PkgOrder) THEN acc
    ELSE IF PkgOrder[i] \in DOMAIN manifest
    THEN ManifestChanges(manifest, i + 1,
            Append(acc, [name |-> basename(PkgOrder[i]), path |-> PkgOrder[i],
                         currentVersion |-> NoVer,
                         newVersion |-> manifest[PkgOrder[i]].latest,
                         bump |-> "none", releaseTarget |-> "main"]))
    ELSE ManifestChanges(manifest, i + 1, acc)

\* github.ts findReleasePRByVersions
findReleasePRByVersions(w, manifest, releaseTarget) ==
    LET prs == PullsList(w, "closed", {ReleaseMe, TargetLabel(releaseTarget)}, <<>>)
        changes == ManifestChanges(manifest, 1, <<>>)
        expectedTitle == generateReleasePRTitle(changes)
        matching == {n \in prs : w.prs[n].title = expectedTitle}
    IN IF Len(changes) = 0 THEN 0
       ELSE IF matching = {} THEN 0 ELSE MaxOf(matching)

\* github.ts wasManifestUpdatedInLastCommit: the latest commit has a file
\* `filePath` whose patch contains `"<releaseTarget>":`
wasManifestUpdatedInLastCommit(w, manifestFile, releaseTarget, soft) ==
    IF soft = "manifestUpdated" THEN FALSE
    ELSE IF Len(w.history) = 0 THEN FALSE
    ELSE LET commit == w.history[Len(w.history)]
         IN manifestFile \in commit.files /\ releaseTarget \in commit.patch

\* -------------------------------------------------------- gateway writes

\* github.ts removeLabel: the remote answers 404 when the PR does not carry
\* the label
removeLabel(w, label, prNumber) ==
    IF w.err # "none" THEN w
    ELSE IF Rejected(w) THEN Reject(w)
    ELSE IF label \notin w.prs[prNumber].labels THEN Throw(Spend(w))
    ELSE Note([Spend(w) EXCEPT !.prs[prNumber].labels = @ \ {label}],
              "removeLabel", label, prNumber)

Caught(w) ==
    IF w.err # "none"
    THEN Note([w EXCEPT !.err = "none", !.message = ""], "warning", <<>>, 0)
    ELSE w

\* addLabel without the removal of release-me
addLabelOnly(w, label, prNumber) ==
    IF w.err # "none" THEN w
    ELSE IF Rejected(w) THEN Reject(w)
    ELSE Note([Spend(w) EXCEPT !.prs[prNumber].labels = @ \cup {label}],
              "addLabel", label, prNumber)

\* addLabel 548-553: issues.addLabels
addLabels(w, label, prNumber) ==
    IF Rejected(w) THEN Reject(w)
    ELSE Note([Spend(w) EXCEPT !.prs[prNumber].labels = @ \cup {label}],
              "addLabel", label, prNumber)

\* github.ts addLabel
addLabel(w, label, prNumber) ==
    IF w.err # "none" THEN w
    ELSE addLabels(IF label = Released THEN Caught(removeLabel(w, ReleaseMe, prNumber))
                   ELSE w,
                   label, prNumber)

\* github.ts createComment
createComment(w, ev, body) ==
    IF w.err # "none" THEN w
    ELSE IF ev.pullRequestNumber = 0 THEN w
    ELSE IF Rejected(w) THEN Reject(w)
    ELSE Note(Spend(w), "createComment", body, ev.pullRequestNumber)

\* github.ts updateManifest
RECURSIVE updateManifest(_, _, _, _)
updateManifest(manifest, changes, releaseTarget, i) ==
    IF i > Len(changes) THEN manifest
    ELSE LET change == changes[i]
             entry == IF change.path \notin DOMAIN manifest
                      THEN [k \in Targets \cup {"latest"} |->
                              IF k \in {"latest", releaseTarget}
                              THEN change.newVersion ELSE NoVer]
                      ELSE [manifest[change.path] EXCEPT
                              !["latest"] = change.newVersion,
                              ![releaseTarget] = change.newVersion]
             next == [p \in DOMAIN manifest \cup {change.path} |->
                        IF p = change.path THEN entry ELSE manifest[p]]
         IN updateManifest(next, changes, releaseTarget, i + 1)

\* github.ts getReleaseTargetToLatestChanges
RECURSIVE TargetToLatest(_, _, _, _)
TargetToLatest(manifest, releaseTarget, i, acc) ==
    IF i > Len(PkgOrder) THEN acc
    ELSE LET path == PkgOrder[i]
         IN IF path \in DOMAIN manifest
               /\ manifest[path][releaseTarget] # manifest[path].latest
            THEN TargetToLatest(manifest, releaseTarget, i + 1,
                    Append(acc, [name |-> basename(path), path |-> path,
                                 currentVersion |-> manifest[path][releaseTarget],
                                 newVersion |-> manifest[path].latest,
                                 bump |-> "none", releaseTarget |-> releaseTarget]))
            ELSE TargetToLatest(manifest, releaseTarget, i + 1, acc)

\* The catch-up changes without the last lagging package
getReleaseTargetToLatestChangesButLast(manifest, releaseTarget) ==
    LET changes == TargetToLatest(manifest, releaseTarget, 1, <<>>)
    IN IF changes = <<>> THEN changes ELSE SubSeq(changes, 1, Len(changes) - 1)

getReleaseTargetToLatestChanges(manifest, releaseTarget) ==
    TargetToLatest(manifest, releaseTarget, 1, <<>>)

\* The commit a release branch carries: a `chore: release ...` commit on
\* top of main that rewrites the manifest (and, for a release PR, the
\* changelog and version file of every changed package).
ReleaseCommit(changes, withPackages) ==
    [type |-> "chore", breaking |-> FALSE,
     files |-> {ManifestFile} \cup
               (IF withPackages
                THEN {f \in Files : \E i \in 1..Len(changes) : StartsWith(f, changes[i].path)}
                ELSE {}),
     patch |-> {}, wrote |-> EmptyManifest, pr |-> 0]

\* A release commit put on top of the commit the release branch points at
NewBranchOnTop(w, changes, manifest, withPackages) ==
    LET target == changes[1].releaseTarget
    IN [base |-> IF BranchExists(w, target) THEN w.branches[target].base
                 ELSE Len(w.history),
        manifest |-> manifest, commit |-> ReleaseCommit(changes, withPackages)]

\* createReleasePullRequest 289-305: createTree with base_tree mainSha and
\* createCommit with parents [mainSha], the head of main read by the call
NewBranch(w, changes, manifest, withPackages) ==
    [base |-> Len(w.history), manifest |-> manifest,
     commit |-> ReleaseCommit(changes, withPackages)]

\* A lookup of the open release PR that finds none
NoExistingPRs(w, target) == {}

\* A lookup of the open release PR that finds the open PRs of every branch
AnyExistingPRs(w, target) == PullsList(w, "open", {}, <<>>)

\* createReleasePullRequest 332-339: the open PRs of the release branch that
\* carry the label of the target
ExistingPRs(w, target) ==
    PullsList(w, "open", {TargetLabel(target)}, ReleaseBranch(target))

\* createReleasePullRequest 306-377 / createVersionBumpPullRequest 446-517:
\* point the branch at the new commit, then create or update the PR
UpsertPullRequest(w, changes, label, title, manifest, withPackages) ==
    LET target == changes[1].releaseTarget
        branchName == ReleaseBranch(target)
        \* createRef, or updateRef with force when the reference exists
        w1 == IF w.err # "none" THEN w
              ELSE IF Rejected(w) THEN Reject(w)
              ELSE Note([Spend(w) EXCEPT !.branches[target] =
                            NewBranch(w, changes, manifest, withPackages)],
                        IF BranchExists(w, target) THEN "updateRef" ELSE "createRef",
                        branchName, 0)
        existingPRs == ExistingPRs(w1, target)
        first == MaxOf(existingPRs)
        \* pulls.update
        w2 == IF w1.err # "none" THEN w1
              ELSE IF Rejected(w1) THEN Reject(w1)
              ELSE Note([Spend(w1) EXCEPT !.prs[first].title = title],
                        "pulls.update", branchName, first)
        w3 == IF label \notin w1.prs[first].labels
              THEN addLabel(addLabel(w2, label, first), TargetLabel(target), first)
              ELSE w2
        \* pulls.create: the remote refuses a second open PR for the same head
        newPr == Len(w1.prs) + 1
        w4 == IF w1.err # "none" THEN w1
              ELSE IF Rejected(w1) THEN Reject(w1)
              ELSE IF PullsList(w1, "open", {}, branchName) # {} THEN Throw(Spend(w1))
              ELSE Note([Spend(w1) EXCEPT !.prs = Append(@,
                            [head |-> branchName, state |-> "open", merged |-> FALSE,
                             labels |-> {}, title |-> title,
                             base |-> Len(w1.history), commits |-> <<>>])],
                        "pulls.create", branchName, newPr)
        w5 == addLabel(addLabel(w4, label, newPr), TargetLabel(target), newPr)
    IN IF w1.err # "none" THEN w1
       ELSE IF existingPRs # {} THEN w3 ELSE w5

\* createReleasePullRequest without the call of updateManifest (line 270)
createReleasePullRequestNoEdit(w, changes, label) ==
    IF w.err # "none" THEN w
    ELSE UpsertPullRequest(Note(w, "createReleasePullRequest", label, 0),
                           changes, label, generateReleasePRTitle(changes), w.fs, TRUE)

\* github.ts createReleasePullRequest: the manifest edited is the one of the
\* working copy ('{}' when the file does not exist there)
createReleasePullRequest(w, changes, label) ==
    IF w.err # "none" THEN w
    ELSE LET title == generateReleasePRTitle(changes)
             manifest == updateManifest(w.fs, changes, changes[1].releaseTarget, 1)
         IN UpsertPullRequest(Note(w, "createReleasePullRequest", label, 0),
                              changes, label, title, manifest, TRUE)

\* github.ts generateVersionBumpPRTitle
generateVersionBumpPRTitle(changes) ==
    IF Len(changes) = 1
    THEN Title("chore: bump <target> to <path>@<version>", changes[1].path,
               changes[1].newVersion, changes[1].releaseTarget)
    ELSE Title("chore: bump <target> to latest", "", NoVer, changes[1].releaseTarget)

\* github.ts createVersionBumpPullRequest: the manifest edited is read from main
createVersionBumpPullRequest(w, changes, label) ==
    IF w.err # "none" THEN w
    ELSE LET title == generateVersionBumpPRTitle(changes)
             manifest == updateManifest(getManifestFromMain(w, "none"), changes,
                                        changes[1].releaseTarget, 1)
         IN UpsertPullRequest(Note(w, "createVersionBumpPullRequest", label, 0),
                              changes, label, title, manifest, FALSE)

\* createRelease 575-642 with every failure of a creation request, the
\* conflict of an existing tag or release included, thrown to the caller
CutOneStrict(w, ev, change, prerelease, manifest) ==
    LET newVersion == IF prerelease THEN change.newVersion
                      ELSE manifest[change.path][change.releaseTarget]
        tagName == TagName(change.path, newVersion)
        w1 == IF Rejected(w) THEN Reject(setFailed(w, "Failed to create tag"))
              ELSE IF TagExists(w, tagName)
              THEN Throw(setFailed(Spend(w), "Failed to create tag"))
              ELSE Note([Spend(w) EXCEPT !.tags = @ \cup {[name |-> tagName, at |-> ev.at,
                                                    pr |-> IF ev.sha = 0
                                                           THEN ev.pullRequestNumber ELSE 0]}],
                        "createTag", <<>>, 0)
        w2 == IF w1.err # "none" THEN w1
              ELSE IF Rejected(w1) THEN Reject(setFailed(w1, "Failed to create release"))
              ELSE IF ReleaseExists(w1, tagName)
              THEN Throw(setFailed(Spend(w1), "Failed to create release"))
              ELSE Note([Spend(w1) EXCEPT !.releases = Append(@,
                            [tag |-> tagName, prerelease |-> prerelease])],
                        "createRelease.release", <<>>, 0)
    IN IF w2.err # "none" THEN w2
       ELSE [w2 EXCEPT !.cut = Append(@,
                [path |-> change.path, tag |-> tagName, prerelease |-> prerelease,
                 planned |-> change.newVersion,
                 created |-> ~ReleaseExists(w, tagName)])]

\* createRelease 590-608: git.createRef refs/tags/<tagName> at context.sha,
\* answered 'Reference already exists' when the tag exists
createTagRefStrict(w, ev, tagName) ==
    IF TagExists(w, tagName) THEN Throw(setFailed(w, "Failed to create tag"))
    ELSE Note([w EXCEPT !.tags = @ \cup {[name |-> tagName, at |-> ev.at,
                                          pr |-> IF ev.sha = 0
                                                 THEN ev.pullRequestNumber ELSE 0]}],
              "createTag", <<>>, 0)

createTagRef(w, ev, tagName) ==
    IF TagExists(w, tagName) THEN Note(w, "warning", <<"tag exists">>, 0)
    ELSE Note([w EXCEPT !.tags = @ \cup {[name |-> tagName, at |-> ev.at,
                                          pr |-> IF ev.sha = 0
                                                 THEN ev.pullRequestNumber ELSE 0]}],
              "createTag", <<>>, 0)

\* createRelease 613-634: repos.createRelease, answered 'already_exists'
\* when the tag has a release
reposCreateRelease(w, tagName, prerelease) ==
    IF ReleaseExists(w, tagName) THEN Note(w, "warning", <<"release exists">>, 0)
    ELSE Note([w EXCEPT !.releases = Append(@, [tag |-> tagName, prerelease |-> prerelease])],
              "createRelease.release", <<>>, 0)

\* github.ts createRelease 575-642: the tag and the release of one change
CutOne(w, ev, change, prerelease, manifest) ==
    LET newVersion == IF prerelease THEN change.newVersion
                      ELSE manifest[change.path][change.releaseTarget]
        tagName == TagName(change.path, newVersion)
        w1 == IF Rejected(w) THEN Reject(setFailed(w, "Failed to create tag"))
              ELSE createTagRef(Spend(w), ev, tagName)
        w2 == IF w1.err # "none" THEN w1
              ELSE IF Rejected(w1) THEN Reject(setFailed(w1, "Failed to create release"))
              ELSE reposCreateRelease(Spend(w1), tagName, prerelease)
    IN IF w2.err # "none" THEN w2
       ELSE [w2 EXCEPT !.cut = Append(@,
                [path |-> change.path, tag |-> tagName, prerelease |-> prerelease,
                 planned |-> change.newVersion,
                 created |-> ~ReleaseExists(w, tagName)])]

\* createRelease 620-650: the versions pushed in the loop, then the outputs
\* set once every change is released
SetReleaseOutputs(w, versions, prerelease) ==
    setOutput(setOutput(IF Len(versions) = 1
                        THEN setOutput(w, "version", versions[1].version)
                        ELSE w,
                        "prerelease", prerelease),
              "versions", versions)

ReleaseOutputs(w, prerelease) ==
    Only({IF x.err # "none" THEN x
          ELSE SetReleaseOutputs(x,
                  [i \in 1..Len(x.cut) |->
                      [name |-> basename(x.cut[i].path), path |-> x.cut[i].path,
                       version |-> x.cut[i].tag.ver, prerelease |-> prerelease]],
                  prerelease) : x \in {w}})

RECURSIVE CutAll(_, _, _, _, _, _)
CutAll(w, ev, changes, prerelease, manifest, i) ==
    IF w.err # "none" \/ i > Len(changes) THEN w
    ELSE IF ~prerelease /\ changes[i].path \notin DOMAIN manifest THEN Throw(w)
    ELSE CutAll(CutOne(w, ev, changes[i], prerelease, manifest),
                ev, changes, prerelease, manifest, i + 1)

\* github.ts createRelease
createRelease(w, ev, changes, prerelease, soft) ==
    IF w.err # "none" THEN w
    ELSE LET manifest == getManifestFromMain(w, IF soft = "releaseManifest"
                                                 THEN "manifest" ELSE "none")
             planned == {TagName(changes[i].path,
                            IF prerelease THEN changes[i].newVersion
                            ELSE manifest[changes[i].path][changes[i].releaseTarget]) :
                         i \in {j \in 1..Len(changes) :
                                   prerelease \/ changes[j].path \in DOMAIN manifest}}
         IN ReleaseOutputs(CutAll([Note(w, "createRelease", <<>>, 0)
                                      EXCEPT !.planned = planned],
                                  ev, changes, prerelease, manifest, 1),
                           prerelease)

\* ------------------------------------------------------- the orchestrator
\* main.ts run().  `in` are the action inputs, `ev` the triggering event
\* (github context), `soft` the one read lookup of the run that fails.
\*   rules   : the lifecycle rules whose action the run executed, in order
\*   outcome : the return point the run left through

RootDir == "."

Active(w) == w.err = "none" /\ w.outcome = "running"

Enter(w, rule) == [w EXCEPT !.rules = Append(@, rule)]

Return(w, outcome) == IF w.err = "none" THEN [w EXCEPT !.outcome = outcome] ELSE w

\* main.ts 105-155: the change of one package, <<>> when it is skipped
ChangeOf(w, packagePath, targetVersions, allCommits, isPrerelease, releaseTarget, soft) ==
    LET commits == getCommitsSinceLastRelease(packagePath, allCommits)
        versionBump == determineVersionBump(commits)
        currentVersion == targetVersions.latest
        bumped == BumpVersion(currentVersion, versionBump)
        rcNumber == getLatestRcVersion(w, packagePath, bumped, soft)
        newVersion == IF isPrerelease THEN Ver(bumped.v, rcNumber) ELSE bumped
    IN IF Len(commits) = 0 THEN <<>>
       ELSE IF versionBump = "" THEN <<>>
       ELSE <<[name |-> Undefined, path |-> packagePath,
               currentVersion |-> currentVersion, newVersion |-> newVersion,
               bump |-> versionBump, releaseTarget |-> releaseTarget]>>

RECURSIVE ComputeChanges(_, _, _, _, _, _, _)
ComputeChanges(w, manifest, allCommits, isPrerelease, releaseTarget, soft, i) ==
    IF i > Len(PkgOrder) THEN <<>>
    ELSE (IF PkgOrder[i] \in DOMAIN manifest
          THEN ChangeOf(w, PkgOrder[i], manifest[PkgOrder[i]], allCommits,
                        isPrerelease, releaseTarget, soft)
          ELSE <<>>)
         \o ComputeChanges(w, manifest, allCommits, isPrerelease, releaseTarget, soft, i + 1)

\* What run() reads before it decides (main.ts 32-161)
Snapshot(w, ev, in, soft) ==
    LET labels == getPullRequestLabels(w, ev)
        isPrerelease == PrereleaseLabel \in labels
        manifest == getManifestFromMain(w, soft)
        allCommits == IF HeadExists(w, ev) THEN getAllCommitsSinceLastRelease(w, ev) ELSE <<>>
    IN [labels |-> labels,
        isDeletedReleaseBranch |-> isDeletedReleaseBranch(w, ev, in.target),
        isPrerelease |-> isPrerelease,
        manifest |-> manifest,
        headExists |-> HeadExists(w, ev),
        allCommits |-> allCommits,
        changes |-> ComputeChanges(w, manifest, allCommits, isPrerelease, in.target, soft, 1)]

\* main.ts 37-50
DeletedBranchRule(w, ev, c) ==
    IF ~Active(w) \/ ~c.isDeletedReleaseBranch THEN w
    ELSE Return(IF ReleaseMe \in c.labels
                THEN removeLabel(addLabel(Enter(w, "deleted-branch"), Released,
                                          ev.pullRequestNumber),
                                 ReleaseMe, ev.pullRequestNumber)
                ELSE Enter(w, "deleted-branch"),
                "deleted-branch")

\* main.ts 53-57 without the check of the `released` label
AlreadyReleasedRuleSkipped(w, c) == w

\* main.ts 53-57
AlreadyReleasedRule(w, c) ==
    IF ~Active(w) \/ Released \notin c.labels THEN w
    ELSE Return(Enter(w, "already-released"), "already-released")

\* main.ts 60-75
PrereleaseDisabledRule(w, ev, in, c) ==
    IF ~Active(w) \/ ~(c.isPrerelease /\ ~in.createPreReleases) THEN w
    ELSE Return(Caught(createComment(Enter(w, "prerelease-disabled"), ev,
                                     <<"prereleases disabled">>)),
                "prerelease-disabled")

\* main.ts 77-78
PrereleaseOutput(w, c) ==
    Only({IF ~Active(x) THEN x ELSE setOutput(x, "prerelease", c.isPrerelease) :
             x \in {w}})

\* main.ts 81-89
EmptyManifestRule(w, c) ==
    IF ~Active(w) \/ Cardinality(DOMAIN c.manifest) # 0 THEN w
    ELSE Return(Enter(w, "empty-manifest"), "empty-manifest")

\* main.ts 92-97: the compare request fails when the head ref is gone
NoCommitsRule(w, c) ==
    IF ~Active(w) THEN w
    ELSE IF ~c.headExists THEN Throw(w)
    ELSE IF Len(c.allCommits) = 0 THEN Return(Enter(w, "no-commits"), "no-commits")
    ELSE w

\* main.ts 99-161: the versions are computed, then the empty change set returns
NoChangesRule(w, c) ==
    IF ~Active(w) THEN w
    ELSE IF Len(c.changes) # 0 THEN [w EXCEPT !.computed = TRUE]
    ELSE Return(Enter([w EXCEPT !.computed = TRUE], "no-changes"), "no-changes")

\* main.ts 163-178
VersionOutputs(w, c) ==
    Only({IF ~Active(x) THEN x
          ELSE IF Len(c.changes) = 1
          THEN setOutput(x, "version", c.changes[1].newVersion)
          ELSE setOutput(x, "versions",
                         [i \in 1..Len(c.changes) |->
                             [path |-> c.changes[i].path,
                              target |-> c.changes[i].releaseTarget,
                              version |-> c.changes[i].newVersion]]) : x \in {w}})

\* main.ts 180-192 without the `return` of line 191
PrereleaseRuleFallsThrough(w, ev, c, soft) ==
    IF ~Active(w) \/ ~c.isPrerelease THEN w
    ELSE createRelease(Caught(createComment(Enter(w, "prerelease"), ev,
                                            <<"created prereleases">>)),
                       ev, c.changes, FALSE, soft)

\* main.ts 180-192
PrereleaseRule(w, ev, c, soft) ==
    IF ~Active(w) \/ ~c.isPrerelease THEN w
    ELSE Return(createRelease(Caught(createComment(Enter(w, "prerelease"), ev,
                                                   <<"created prereleases">>)),
                              ev, c.changes, FALSE, soft),
                "prerelease")

\* main.ts 197-201: findReleasePRByVersions is called without a release target
ResolvePR(w, ev, c, soft) ==
    LET fromCommit == getPullRequestFromCommit(w, ev.sha, soft)
    IN IF fromCommit # 0 THEN fromCommit
       ELSE findReleasePRByVersions(w, c.manifest, Undefined)

\* main.ts 195-211 with the label settled before the releases are created
MergedReleaseRuleLabelsFirst(w, ev, c, soft) ==
    IF ~Active(w) \/ ReleaseMe \notin c.labels THEN w
    ELSE LET prNumber == ResolvePR(w, ev, c, soft)
         IN IF prNumber = 0 THEN w
            ELSE Return(createRelease(addLabel(Enter(w, "merged-release"), Released,
                                               prNumber),
                                      ev, c.changes, FALSE, soft),
                        "merged-release")

\* main.ts 195-211
MergedReleaseRule(w, ev, c, soft) ==
    IF ~Active(w) \/ ReleaseMe \notin c.labels THEN w
    ELSE LET prNumber == ResolvePR(w, ev, c, soft)
         IN IF prNumber = 0 THEN w
            ELSE Return(addLabel(createRelease(Enter(w, "merged-release"), ev,
                                               c.changes, FALSE, soft),
                                 Released, prNumber),
                        "merged-release")

\* main.ts 214-220: the second argument of the call is the root-dir input
SquashMergeRule(w, ev, c, soft) ==
    IF ~Active(w) \/ ~wasManifestUpdatedInLastCommit(w, ManifestFile, RootDir, soft) THEN w
    ELSE Return(createRelease(Enter(w, "squash-release"), ev, c.changes, FALSE, soft),
                "squash-release")

\* main.ts 222-225
ReleasePRRule(w, c) ==
    IF ~Active(w) THEN w
    ELSE Return(createReleasePullRequest(Enter(w, "release-pr"), c.changes, ReleaseMe),
                "release-pr")

\* main.ts 226-232 with the generic message for every value thrown
CatchAllUnknown(w) ==
    IF w.err = "none" THEN w
    ELSE [setFailed(w, "An unknown error occurred") EXCEPT !.outcome = "failed"]

\* main.ts 226-232
CatchAll(w) ==
    IF w.err = "none" THEN w
    ELSE [setFailed(w, IF w.err = "Error" THEN w.message
                       ELSE "An unknown error occurred")
          EXCEPT !.outcome = "failed"]

\* main.ts 25-29
ReservedTarget ==
    "release-target cannot be \"latest\", because it is reserved for the latest release"

\* main.ts 32-178: the early returns and the outputs, on what the run read
Decide(w, ev, in, c) ==
    LET w1 == DeletedBranchRule(w, ev, c)
        w2 == AlreadyReleasedRule(w1, c)
        w3 == PrereleaseDisabledRule(w2, ev, in, c)
        w4 == EmptyManifestRule(PrereleaseOutput(w3, c), c)
        w5 == NoCommitsRule(w4, c)
    IN VersionOutputs(NoChangesRule(w5, c), c)

\* main.ts 180-232: the release rules and the catch block
Act(w6, ev, c, soft) ==
    LET w7 == PrereleaseRule(w6, ev, c, soft)
        w8 == MergedReleaseRule(w7, ev, c, soft)
        w9 == SquashMergeRule(w8, ev, c, soft)
    IN CatchAll(ReleasePRRule(w9, c))

run(w, ev, in, soft) ==
    IF in.target = "latest" THEN CatchAll(ThrowError(w, ReservedTarget))
    ELSE Only({Only({Act(w6, ev, c, soft) : w6 \in {Decide(w, ev, in, c)}}) :
                  c \in {Snapshot(w, ev, in, soft)}})

\* ------------------------------------------------------------- the state
\* manifest : .release-manifest.json on main
\* history  : the commits of main after the initial one, oldest first
\* releases : the GitHub releases, oldest first
\* tags     : the tags
\* prs      : the pull requests, by number
\* branches : the release branch of every target (NoBranch: none)
\* faults   : the number of runs so far in which a request failed
\* last     : the last workflow run (NoRun after any other step)
\* calc     : the arguments and results of the calls of the version functions
\*            (version.ts) made outside a run
VARIABLES manifest, history, releases, tags, prs, branches, faults, last, calc

vars == <<manifest, history, releases, tags, prs, branches, faults, last, calc>>

remote == <<manifest, history, releases, tags, prs, branches>>

V100 == Ver(<<1, 0, 0>>, 0)

InitEntry == [k \in Targets \cup {"latest"} |-> V100]

InitManifests == {[p \in D |-> InitEntry] : D \in {{".", "pkg/a"}, {"pkg/a", "lib"}}}

\* A release candidate cut before the first run of the model
RcA == [name |-> TagName("pkg/a", Ver(<<1, 1, 0>>, 1)), at |-> 0, pr |-> 0]

WorkCommits ==
    {[type |-> "feat", breaking |-> FALSE, files |-> {"pkg/a/f"}, patch |-> {},
      wrote |-> EmptyManifest, pr |-> 0],
     [type |-> "fix", breaking |-> FALSE, files |-> {"lib/f"}, patch |-> {},
      wrote |-> EmptyManifest, pr |-> 0],
     [type |-> "chore", breaking |-> FALSE, files |-> {OtherFile}, patch |-> {},
      wrote |-> EmptyManifest, pr |-> 0]}

FeatureCommit ==
    [type |-> "feat", breaking |-> FALSE, files |-> {"pkg/a/f"}, patch |-> {},
     wrote |-> EmptyManifest, pr |-> 0]

NoEvent == [isPullRequest |-> FALSE, pullRequestNumber |-> 0, sha |-> 0 - 1, at |-> 0 - 1,
            wc |-> EmptyManifest]

NoRun == [ran |-> FALSE, ev |-> NoEvent,
          in |-> [target |-> "", createPreReleases |-> FALSE], k |-> 0,
          soft |-> "none", rules |-> <<>>, outcome |-> "none", failed |-> 0,
          log |-> <<>>, cut |-> <<>>, planned |-> {}, computed |-> FALSE,
          out |-> NoOutputs, err |-> "none", message |-> "", reported |-> <<>>]

\* The workflow runs that execute concurrently, and a run not started
Runners == {1, 2}

Idle == [state |-> "idle", ev |-> NoEvent, target |-> "", rule |-> "none",
         changes |-> <<>>, pr |-> 0, pc |-> 0, failed |-> 0, warnings |-> 0]

\* No call of the version functions yet
\*   again : the call repeats the prerelease step on `prev`, the result of
\*           the call before it
NoCalc == [commits |-> <<>>, bump |-> determineVersionBump(<<>>),
           current |-> Text("", <<0, 0, 0>>, <<>>), kind |-> "none",
           isPreRelease |-> FALSE, preReleaseNumber |-> 0,
           again |-> FALSE, prev |-> Text("", <<0, 0, 0>>, <<>>),
           message |-> <<Plain("")>>, parsed |-> parseConventionalCommit(<<Plain("")>>),
           entries |-> <<>>, changelog |-> generateChangelog(<<>>),
           packagePath |-> "", allCommits |-> <<>>, attributed |-> <<>>,
           write |-> "none", indentation |-> "2", object |-> <<>>, text |-> <<>>,
           readBack |-> [err |-> FALSE, value |-> <<>>],
           packageFiles |-> <<>>, newVersion |-> NoVer,
           updated |-> [err |-> "none", message |-> <<>>, files |-> <<>>, written |-> {}],
           treeItems |-> {},
           call |-> "none", target |-> "", changes |-> <<>>, err |-> "none",
           log |-> <<>>, runs |-> [p \in Runners |-> Idle],
           pages |-> <<>>, page |-> 1, hasMorePages |-> TRUE, fetched |-> <<>>,
           returned |-> FALSE,
           result |-> calculateNewVersion(Text("", <<0, 0, 0>>, <<>>), "none", FALSE, 0)]

Init ==
    /\ manifest \in InitManifests
    /\ history = <<>>
    /\ tags = {RcA}
    /\ releases = <<[tag |-> RcA.name, prerelease |-> TRUE]>>
    /\ prs = <<>>
    /\ branches = [t \in Targets |-> NoBranch]
    /\ faults = 0
    /\ last = NoRun
    /\ calc = NoCalc

\* ------------------------------------------------------- the environment
Pushes == Cardinality({i \in 1..Len(history) : history[i].pr = 0})

\* A commit is pushed to main
Push(c) ==
    /\ ~last.ran
    /\ Pushes < MaxPushes
    /\ history' = Append(history, c)
    /\ last' = NoRun
    /\ UNCHANGED <<manifest, releases, tags, prs, branches, faults, calc>>

\* A feature PR carrying the prerelease label is opened against main (it
\* stays open: what a run sees of a merged feature PR is what it sees of a
\* push of its commit)
OpenPR(labels) ==
    /\ ~last.ran
    /\ Len(prs) < MaxPRs
    /\ \A n \in 1..Len(prs) : prs[n].head = FeatureRef => prs[n].state = "closed"
    /\ prs' = Append(prs, [head |-> FeatureRef, state |-> "open", merged |-> FALSE,
                           labels |-> labels,
                           title |-> Title("feature", "", NoVer, ""),
                           base |-> Len(history), commits |-> <<FeatureCommit>>])
    /\ last' = NoRun
    /\ UNCHANGED <<manifest, history, releases, tags, branches, faults, calc>>

\* The keys on the changed and context lines of the manifest patch of a
\* commit (unified diff, three context lines, one line per key)
PatchKeys(old, new) ==
    LET changed == {p \in DOMAIN new : p \notin DOMAIN old \/ old[p] # new[p]}
        after == {PkgOrder[i + 1] : i \in {j \in 1..(Len(PkgOrder) - 1) :
                                             PkgOrder[j] \in changed}}
    IN IF changed = {} THEN {}
       ELSE changed \cup (after \cap DOMAIN new) \cup Targets \cup {"latest"}

TargetOf(head) == CHOOSE t \in Targets : head = ReleaseBranch(t)

IsReleaseHead(head) == \E t \in Targets : head = ReleaseBranch(t)

\* An open release PR is merged into main (one squashed commit); the release
\* branch may be deleted with it
MergePR(n, del) ==
    /\ ~last.ran
    /\ n \in 1..Len(prs)
    /\ prs[n].state = "open"
    /\ IsReleaseHead(prs[n].head)
    /\ prs' = [prs EXCEPT ![n].state = "closed", ![n].merged = TRUE]
    /\ last' = NoRun
    /\ LET t == TargetOf(prs[n].head)
           b == branches[t]
       IN /\ b # NoBranch
          /\ \A i \in (b.base + 1)..Len(history) : ManifestFile \notin history[i].files
          /\ history' = Append(history, [b.commit EXCEPT !.pr = n,
                                           !.patch = PatchKeys(manifest, b.manifest),
                                           !.wrote = b.manifest])
          /\ manifest' = b.manifest
          /\ branches' = IF del THEN [branches EXCEPT ![t] = NoBranch] ELSE branches
    /\ UNCHANGED <<releases, tags, faults, calc>>

\* ------------------------------------------------------------ the events
\* A workflow run checks out the commit of its event; the event may be up to
\* MaxStale commits older than the head of main by the time the run starts.
RECURSIVE ManifestAt(_)
ManifestAt(s) ==
    IF s = 0 THEN [p \in DOMAIN manifest |-> InitEntry]
    ELSE IF DOMAIN history[s].wrote # {} THEN history[s].wrote
    ELSE ManifestAt(s - 1)

PushEvent(s) ==
    [isPullRequest |-> FALSE, pullRequestNumber |-> 0, sha |-> s, at |-> s,
     wc |-> ManifestAt(s)]

MergeIndex(n) == CHOOSE i \in 1..Len(history) : history[i].pr = n

PREvent(n) ==
    [isPullRequest |-> TRUE, pullRequestNumber |-> n,
     sha |-> IF prs[n].merged THEN MergeIndex(n) ELSE 0,
     at |-> IF prs[n].merged THEN MergeIndex(n) ELSE Len(history),
     wc |-> IF prs[n].merged THEN ManifestAt(MergeIndex(n))
            ELSE IF /\ IsReleaseHead(prs[n].head)
                    /\ branches[TargetOf(prs[n].head)] # NoBranch
                    /\ branches[TargetOf(prs[n].head)].base = Len(history)
            THEN branches[TargetOf(prs[n].head)].manifest
            ELSE manifest]

Events ==
    {PushEvent(s) : s \in {x \in 0..Len(history) : x >= Len(history) - MaxStale}}
       \cup {PREvent(n) : n \in 1..Len(prs)}

\* ------------------------------------------------------------ the runs
\* The world a run on the event e starts in, for the remote r
WorldOf(r, e, k) ==
    [manifest |-> r[1], history |-> r[2], releases |-> r[3], tags |-> r[4],
     prs |-> r[5], branches |-> r[6], fs |-> e.wc,
     err |-> "none", k |-> k, injected |-> FALSE, log |-> <<>>, cut |-> <<>>,
     planned |-> {}, rules |-> <<>>, outcome |-> "running", failed |-> 0,
     computed |-> FALSE, out |-> NoOutputs, message |-> "", rejection |-> "Error",
     reported |-> <<>>]

World(e, k) == WorldOf(remote, e, k)

\* The remote a run leaves
WorldRemote(w) == <<w.manifest, w.history, w.releases, w.tags, w.prs, w.branches>>

Inputs == [target : Targets, createPreReleases : BOOLEAN]

SoftFailures == {"none", "manifest", "rc", "prFromCommit", "manifestUpdated",
                 "releaseManifest"}

\* What can go wrong in a run: nothing, the k-th write request is rejected,
\* or one read lookup fails
Faults ==
    {[k |-> 0, soft |-> "none"]}
       \cup {[k |-> n, soft |-> "none"] : n \in 1..MaxFail}
       \cup {[k |-> 0, soft |-> x] : x \in SoftFailures \ {"none"}}

Commit(r, e, in, k, soft) ==
    /\ Len(r.prs) <= MaxPRs
    /\ k = 0 \/ r.injected
    /\ faults' = IF k # 0 \/ soft # "none" THEN faults + 1 ELSE faults
    /\ manifest' = r.manifest
    /\ history' = r.history
    /\ releases' = r.releases
    /\ tags' = r.tags
    /\ prs' = r.prs
    /\ branches' = r.branches
    /\ last' = [ran |-> TRUE, ev |-> e, in |-> in, k |-> k, soft |-> soft,
                rules |-> r.rules, outcome |-> r.outcome, failed |-> r.failed,
                log |-> r.log, cut |-> r.cut, planned |-> r.planned,
                computed |-> r.computed, out |-> r.out, err |-> r.err,
                message |-> r.message, reported |-> r.reported]
    /\ UNCHANGED calc

\* One workflow run of the action on the event e.  Workflow runs of one
\* concurrency group do not overlap: a run starts when the previous one has
\* ended.  A failing lookup is drawn only where it changes what the run
\* does, and the create-prereleases input only for an event whose PR carries
\* the prerelease label (it is read nowhere else).
\* The workflow of the target main runs on push and on pull_request events,
\* the workflow of the target canary on push events only
Triggers(e, in) == in.target = "canary" => ~e.isPullRequest

\* The values a rejected request rejects with: an Error, or any other value
Rejections == {"Error", "value"}

\* A run in which the rejected request, if any, rejects with `rejection`
RunWith(e, in, k, soft, rejection) ==
    LET clean == run(World(e, 0), e, in, "none")
        r == IF k = 0 /\ soft = "none" THEN clean
             ELSE run([World(e, k) EXCEPT !.rejection = rejection], e, in, soft)
    IN /\ ~last.ran
       /\ Triggers(e, in)
       /\ k # 0 \/ soft # "none" => faults < MaxFaults
       /\ k = 0 => rejection = "Error"
       /\ in.createPreReleases => PrereleaseLabel \in getPullRequestLabels(World(e, 0), e)
       /\ soft # "none" => r # clean
       /\ Commit(r, e, in, k, soft)

\* A run in which the requests reject with an Error, as the requests of the
\* GitHub client do
Run(e, in, k, soft) == RunWith(e, in, k, soft, "Error")

\* The workflow run ends
Done ==
    /\ last.ran
    /\ last' = NoRun
    /\ UNCHANGED <<remote, faults, calc>>

Next ==
    \/ \E c \in WorkCommits : Push(c)
    \/ OpenPR({PrereleaseLabel})
    \/ \E n \in 1..MaxPRs, del \in BOOLEAN : MergePR(n, del)
    \/ \E e \in Events, in \in Inputs, f \in Faults : Run(e, in, f.k, f.soft)
    \/ Done

Spec == Init /\ [][Next]_vars

\* ------------------------------------------------- the failures of a run
\* The runs of Spec, and the runs with the reserved release target and with
\* requests that reject with a value that is no Error
AllInputs == [target : Targets \cup {"latest"}, createPreReleases : BOOLEAN]

FailureNext ==
    \/ \E c \in WorkCommits : Push(c)
    \/ OpenPR({PrereleaseLabel})
    \/ \E n \in 1..MaxPRs, del \in BOOLEAN : MergePR(n, del)
    \/ \E e \in Events, in \in AllInputs, f \in Faults, rejection \in Rejections :
          RunWith(e, in, f.k, f.soft, rejection)
    \/ Done

FailureSpec == Init /\ [][FailureNext]_vars

\* ------------------------------------------------- the version functions
\* The functions of version.ts applied to arguments drawn from bounded sets,
\* on a repository on which no workflow runs.
MaxCommits == 3
MaxPart == 1
MaxRc == 2

\* ConventionalCommit as parseConventionalCommit returns it: the type is one
\* of the table (bumps "minor", "patch", "none")
ParsedCommits ==
    {[type |-> t, breaking |-> FALSE] : t \in {"feat", "fix", "chore", "docs"}}
        \cup {[type |-> "chore", breaking |-> TRUE]}

\* VersionBump
Bumps == {"major", "minor", "patch", "none"}

\* Version texts: with and without the leading "v" and the "-rc.1" suffix,
\* of three numbers (valid) or two (invalid)
VersionTexts ==
    {Text(lead, nums, pre) : lead \in {"", "v"},
                             nums \in [1..3 -> 0..MaxPart] \cup [1..2 -> 0..MaxPart],
                             pre \in {<<>>, <<1>>}}

\* The arguments isPreRelease and preReleaseNumber (0: not supplied)
PreReleaseArgs ==
    {[isPreRelease |-> FALSE, preReleaseNumber |-> 0]}
        \cup {[isPreRelease |-> TRUE, preReleaseNumber |-> n] : n \in 0..MaxRc}

\* determineVersionBump on the list of commits extended by one commit; the
\* version is computed anew after it
Classify(c) ==
    /\ Len(calc.commits) < MaxCommits
    /\ calc' = [NoCalc EXCEPT !.commits = Append(calc.commits, c),
                              !.bump = determineVersionBump(Append(calc.commits, c))]
    /\ UNCHANGED <<remote, faults, last>>

\* calculateNewVersion(currentVersion, bump, isPreRelease, preReleaseNumber)
\* with the bump determined from the commits
Calculate(currentVersion, pre) ==
    /\ calc' = [calc EXCEPT !.current = currentVersion, !.kind = calc.bump,
                            !.isPreRelease = pre.isPreRelease,
                            !.preReleaseNumber = pre.preReleaseNumber,
                            !.again = FALSE, !.prev = currentVersion,
                            !.result = calculateNewVersion(currentVersion, calc.bump,
                                          pre.isPreRelease, pre.preReleaseNumber)]
    /\ UNCHANGED <<remote, faults, last>>

\* The prerelease step applied once more, with the same ordinal, to the
\* version a prerelease call returned
Recalculate ==
    /\ calc.isPreRelease
    /\ ~calc.again
    /\ calc.result.err = "none"
    /\ calc' = [calc EXCEPT !.current = calc.result.value, !.kind = "none",
                            !.again = TRUE, !.prev = calc.result.value,
                            !.result = calculateNewVersion(calc.result.value, "none", TRUE,
                                          calc.preReleaseNumber)]
    /\ UNCHANGED <<remote, faults, last>>

VersionInit ==
    /\ manifest = EmptyManifest
    /\ history = <<>>
    /\ tags = {}
    /\ releases = <<>>
    /\ prs = <<>>
    /\ branches = [t \in Targets |-> NoBranch]
    /\ faults = 0
    /\ last = NoRun
    /\ calc = NoCalc

VersionNext ==
    \/ \E c \in ParsedCommits : Classify(c)
    \/ \E currentVersion \in VersionTexts, pre \in PreReleaseArgs :
          Calculate(currentVersion, pre)
    \/ Recalculate

VersionSpec == VersionInit /\ [][VersionNext]_vars

\* ---------------------------------------------------- the commit functions
\* parseConventionalCommit and generateChangelog applied to arguments drawn
\* from bounded sets.
MaxEntries == 3

\* Commit messages: conventional headers of one line, with and without
\* scope and "!"; plain text; a type outside the alternation; empty
\* parentheses; no ": "; no subject; a header followed by a body; a
\* squash-merge message (empty first line, header, squashed commits)
Messages ==
    {<<Line("feat", "(core)", FALSE, TRUE, "add new feature")>>,
     <<Line("fix", "", TRUE, TRUE, "breaking fix")>>,
     <<Line("ci", "(core)", TRUE, TRUE, "new runner")>>,
     <<Plain("random commit message")>>,
     <<Line("wip", "", FALSE, TRUE, "try")>>,
     <<Line("feat", "()", FALSE, TRUE, "add")>>,
     <<Line("docs", "", FALSE, FALSE, "readme")>>,
     <<Line("chore", "", FALSE, TRUE, "")>>,
     <<Line("fix", "", FALSE, TRUE, "a bug"), Plain(""), Plain("details")>>,
     <<Plain(""), Line("feat", "", TRUE, TRUE, "support multiple release targets (#16)"),
       Plain(""), Plain("* chore: fix lint setup")>>}

\* ConventionalCommit records given to generateChangelog: two feat commits,
\* a fix, a style commit, a commit of a type outside the switch, a breaking
\* ci commit
ChangelogCommits ==
    {[type |-> "feat", breaking |-> FALSE, message |-> "a"],
     [type |-> "feat", breaking |-> TRUE, message |-> "b"],
     [type |-> "fix", breaking |-> FALSE, message |-> "c"],
     [type |-> "style", breaking |-> FALSE, message |-> "d"],
     [type |-> "wip", breaking |-> FALSE, message |-> "e"],
     [type |-> "ci", breaking |-> TRUE, message |-> "f"]}

\* parseConventionalCommit(message)
Parse(message) ==
    /\ calc' = [calc EXCEPT !.message = message,
                            !.parsed = parseConventionalCommit(message)]
    /\ UNCHANGED <<remote, faults, last>>

\* generateChangelog on the list of commits extended by one commit
Changelog(commit) ==
    /\ Len(calc.entries) < MaxEntries
    /\ calc' = [calc EXCEPT !.entries = Append(@, commit),
                            !.changelog = generateChangelog(Append(calc.entries, commit))]
    /\ UNCHANGED <<remote, faults, last>>

CommitNext ==
    \/ \E message \in Messages : Parse(message)
    \/ \E commit \in ChangelogCommits : Changelog(commit)

CommitSpec == VersionInit /\ [][CommitNext]_vars

\* --------------------------------------------- the commits of a package
\* Bounds of the histories the commit lookup is applied to: the first
\* MaxVaried commits are of any kind and releases are published among them,
\* the later ones are one kind, up to MaxHistory commits after the first.
MaxHistory == 52

MaxVaried == 2

MaxPublished == 2

\* Commits of a repository with the packages pkg/a, lib and lib-utils; all
\* of them are of a type that bumps the version.
LookupCommits ==
    {[type |-> "feat", breaking |-> FALSE, files |-> {"pkg/a/f"}, patch |-> {},
      wrote |-> EmptyManifest, pr |-> 0],
     [type |-> "fix", breaking |-> FALSE, files |-> {"lib/f"}, patch |-> {},
      wrote |-> EmptyManifest, pr |-> 0],
     [type |-> "perf", breaking |-> FALSE, files |-> {"lib-utils/f"}, patch |-> {},
      wrote |-> EmptyManifest, pr |-> 0],
     [type |-> "refactor", breaking |-> FALSE, files |-> {"lib/f", "pkg/a/f"},
      patch |-> {}, wrote |-> EmptyManifest, pr |-> 0]}

LaterCommit == CHOOSE c \in LookupCommits : c.type = "feat"

LookupPaths == {".", "pkg/a", "lib", "lib-utils"}

\* A commit lands on the main branch
Land(c) ==
    /\ Len(history) < MaxHistory
    /\ Len(history) < MaxVaried \/ c = LaterCommit
    /\ history' = Append(history, c)
    /\ calc' = NoCalc
    /\ UNCHANGED <<manifest, releases, tags, prs, branches, faults, last>>

\* A release of the root package is published at the head of main
Publish(prerelease) ==
    LET tagName == TagName(".", Ver(<<1, Len(releases), 0>>, IF prerelease THEN 1 ELSE 0))
    IN /\ Len(releases) < MaxPublished
       /\ Len(history) <= MaxVaried
       /\ tags' = tags \cup {[name |-> tagName, at |-> Len(history), pr |-> 0]}
       /\ releases' = Append(releases, [tag |-> tagName, prerelease |-> prerelease])
       /\ calc' = NoCalc
       /\ UNCHANGED <<manifest, history, prs, branches, faults, last>>

\* main.ts 81-92: the commits since the last release, then those of a package
Lookup(packagePath) ==
    LET ev == PushEvent(Len(history))
        allCommits == getAllCommitsSinceLastRelease(WorldOf(remote, ev, 0), ev)
    IN /\ calc' = [NoCalc EXCEPT !.packagePath = packagePath,
                                 !.allCommits = allCommits,
                                 !.attributed =
                                     getCommitsSinceLastRelease(packagePath, allCommits)]
       /\ UNCHANGED <<remote, faults, last>>

LookupNext ==
    \/ \E c \in LookupCommits : Land(c)
    \/ \E prerelease \in BOOLEAN : Publish(prerelease)
    \/ \E packagePath \in LookupPaths : Lookup(packagePath)

LookupSpec == VersionInit /\ [][LookupNext]_vars

\* ------------------------------------------- the changes of the packages
WorkCommit(type) == CHOOSE c \in WorkCommits : c.type = type

\* The runs of Spec that fail at no request, on repositories whose history
\* starts with commits that bump no version next to commits that do.
ChangeCommits ==
    {WorkCommit("feat"), WorkCommit("fix"), WorkCommit("chore"),
     [WorkCommit("chore") EXCEPT !.files = {"lib/f"}],
     [WorkCommit("chore") EXCEPT !.files = {"pkg/a/f", "lib/f"}]}

ChangeInit ==
    /\ manifest \in InitManifests
    /\ history \in UNION {[1..n -> ChangeCommits] : n \in 0..MaxPushes + 1}
    /\ tags = {RcA}
    /\ releases = <<[tag |-> RcA.name, prerelease |-> TRUE]>>
    /\ prs = <<>>
    /\ branches = [t \in Targets |-> NoBranch]
    /\ faults = 0
    /\ last = NoRun
    /\ calc = NoCalc

ChangeNext ==
    \/ \E c \in WorkCommits : Push(c)
    \/ OpenPR({PrereleaseLabel})
    \/ \E n \in 1..MaxPRs, del \in BOOLEAN : MergePR(n, del)
    \/ \E e \in Events, in \in Inputs : Run(e, in, 0, "none")
    \/ Done

ChangeSpec == ChangeInit /\ [][ChangeNext]_vars

\* ------------------------------------------------- the pages of commits
\* The loop of getAllCommitsSinceLastRelease over the result pages of the
\* compare request.  A page is its commits and whether its link header
\* carries rel="next"; a request for a page after the last one is answered
\* with no commits.
MaxPages == 3

PageCommits ==
    {<<>>, <<WorkCommit("feat")>>, <<WorkCommit("chore")>>,
     <<WorkCommit("fix"), WorkCommit("chore")>>,
     <<WorkCommit("chore"), WorkCommit("feat"), WorkCommit("fix")>>}

Pages == [commits : PageCommits, next : BOOLEAN]

PageSeqs == UNION {[1..n -> Pages] : n \in 1..MaxPages}

\* GET /repos/{owner}/{repo}/compare/{basehead} for the page
CompareRequest(pages, page) ==
    IF page <= Len(pages) THEN pages[page] ELSE [commits |-> <<>>, next |-> FALSE]

\* One pass of the loop that goes on after a page without relevant commits
fetchPageNoBreak(c) ==
    LET response == CompareRequest(c.pages, c.page)
        commits == SelectSeq(response.commits, IsRelevant)
    IN [c EXCEPT !.fetched = Append(@, c.page),
                 !.allCommits = @ \o commits,
                 !.hasMorePages = response.next,
                 !.page = @ + 1,
                 !.returned = ~response.next]

\* getAllCommitsSinceLastRelease 696-759: one pass of the while loop; the
\* method returns when the loop breaks or hasMorePages is false
fetchPage(c) ==
    LET response == CompareRequest(c.pages, c.page)
        commits == SelectSeq(response.commits, IsRelevant)
    IN IF Len(response.commits) = 0 \/ Len(commits) = 0
       THEN [c EXCEPT !.fetched = Append(@, c.page), !.returned = TRUE]
       ELSE [c EXCEPT !.fetched = Append(@, c.page),
                      !.allCommits = @ \o commits,
                      !.hasMorePages = response.next,
                      !.page = @ + 1,
                      !.returned = ~response.next]

PageInit ==
    /\ manifest = EmptyManifest
    /\ history = <<>>
    /\ tags = {}
    /\ releases = <<>>
    /\ prs = <<>>
    /\ branches = [t \in Targets |-> NoBranch]
    /\ faults = 0
    /\ last = NoRun
    /\ calc \in {[NoCalc EXCEPT !.pages = pages] : pages \in PageSeqs}

FetchPage ==
    /\ calc.hasMorePages
    /\ ~calc.returned
    /\ calc' = fetchPage(calc)
    /\ UNCHANGED <<remote, faults, last>>

PageNext == FetchPage

PageSpec == PageInit /\ [][PageNext]_vars

\* The loop runs until it is left
PageLive == PageSpec /\ WF_vars(FetchPage)

\* ----------------------------------------------------- concurrent runs
\* The repository of Spec with runs that fail at no request, and the runs
\* on a merged release PR (its pull_request event and the push event of its
\* merge commit) executing concurrently: a run reads the remote when it
\* starts, and its write requests are steps of their own, in any order with
\* the requests of the other run.
Racing == calc.runs # NoCalc.runs

\* The write requests of a run that cuts releases: main.ts 194-220
RECURSIVE CutRequests(_, _)
CutRequests(changes, i) ==
    IF i > Len(changes) THEN <<>>
    ELSE <<[op |-> "createTag", change |-> i], [op |-> "createRelease", change |-> i]>>
            \o CutRequests(changes, i + 1)

Requests(r) ==
    CutRequests(r.changes, 1)
       \o (IF r.rule = "merged-release"
           THEN <<[op |-> "removeLabel", change |-> 0], [op |-> "addLabels", change |-> 0]>>
           ELSE <<>>)

\* The events of the merged release PR n
MergeEvents(n) == {PREvent(n), PushEvent(MergeIndex(n))}

\* A run starts on an event of the merged release PR n: it reads the remote
\* and takes the path of run() for what it read.  A run that reaches no
\* write request ends here.
Begin(p, n, e) ==
    /\ ~last.ran
    /\ calc.runs[p].state = "idle"
    /\ \A q \in Runners : q < p => calc.runs[q].state # "idle"
    /\ n \in 1..Len(prs)
    /\ prs[n].merged
    /\ IsReleaseHead(prs[n].head)
    /\ e \in MergeEvents(n)
    /\ LET in == [target |-> TargetOf(prs[n].head), createPreReleases |-> FALSE]
           c == Snapshot(World(e, 0), e, in, "none")
           r == run(World(e, 0), e, in, "none")
           rule == IF r.rules = <<>> THEN "none" ELSE r.rules[Len(r.rules)]
           cuts == rule \in {"merged-release", "squash-release"}
       IN /\ Triggers(e, in)
          /\ cuts \/ WorldRemote(r) = remote
          /\ calc' = [calc EXCEPT !.runs[p] =
                         [state |-> IF cuts /\ Len(c.changes) > 0 THEN "running" ELSE "done",
                          ev |-> e, target |-> in.target, rule |-> rule,
                          changes |-> IF cuts THEN c.changes ELSE <<>>,
                          pr |-> IF rule = "merged-release"
                                 THEN ResolvePR(World(e, 0), e, c, "none") ELSE 0,
                          pc |-> 1, failed |-> IF cuts THEN 0 ELSE r.failed,
                          warnings |-> 0]]
    /\ UNCHANGED <<remote, faults, last>>

\* The next write request of the run p is sent and answered
Request(p) ==
    LET r == calc.runs[p]
        req == Requests(r)[r.pc]
        change == r.changes[req.change]
        tagName == TagName(change.path, manifest[change.path][change.releaseTarget])
        w0 == World(r.ev, 0)
        w == CASE req.op = "createTag" -> createTagRef(w0, r.ev, tagName)
               [] req.op = "createRelease" -> reposCreateRelease(w0, tagName, FALSE)
               [] req.op = "removeLabel" -> Caught(removeLabel(w0, ReleaseMe, r.pr))
               [] req.op = "addLabels" -> addLabels(w0, Released, r.pr)
        thrown == CatchAll(w)
    IN /\ r.state = "running"
       /\ manifest' = thrown.manifest
       /\ history' = thrown.history
       /\ releases' = thrown.releases
       /\ tags' = thrown.tags
       /\ prs' = thrown.prs
       /\ branches' = thrown.branches
       /\ calc' = [calc EXCEPT !.runs[p] =
                      [r EXCEPT !.pc = @ + 1,
                                !.state = IF thrown.err # "none" \/ r.pc = Len(Requests(r))
                                          THEN "done" ELSE "running",
                                !.failed = @ + thrown.failed,
                                !.warnings = @ + Cardinality({i \in 1..Len(thrown.log) :
                                                                thrown.log[i].op = "warning"})]]
       /\ UNCHANGED <<faults, last>>

RaceNext ==
    \/ ~Racing /\ \E c \in WorkCommits : Push(c)
    \/ ~Racing /\ \E n \in 1..MaxPRs : MergePR(n, FALSE)
    \/ ~Racing /\ \E e \in Events, in \in Inputs : Run(e, in, 0, "none")
    \/ ~Racing /\ Done
    \/ \E p \in Runners, n \in 1..MaxPRs, e \in Events : Begin(p, n, e)
    \/ \E p \in Runners : Request(p)

RaceSpec == Init /\ [][RaceNext]_vars

\* ------------------------------------------------- the pull request calls
\* createReleasePullRequest and createVersionBumpPullRequest called for the
\* release targets, in any order, on a repository whose manifest holds
\* targets that lag behind `latest`; the PRs they open are merged in between.
LagEntries ==
    {[k \in Targets \cup {"latest"} |-> IF k \in at THEN Ver(<<1, 1, 0>>, 0) ELSE V100] :
        at \in {S \cup {"latest"} : S \in SUBSET Targets}}

LagManifests == [{"pkg/a", "lib"} -> LagEntries]

CallInit ==
    /\ manifest \in LagManifests
    /\ history = <<>>
    /\ tags = {}
    /\ releases = <<>>
    /\ prs = <<>>
    /\ branches = [t \in Targets |-> NoBranch]
    /\ faults = 0
    /\ last = NoRun
    /\ calc = NoCalc

\* The checkout of the head of main
HeadEvent == [NoEvent EXCEPT !.wc = manifest]

\* The call returns: its writes are on the remote
Called(w, call, target, changes) ==
    /\ calc.call = "none"
    /\ Len(w.prs) <= MaxPRs
    /\ manifest' = w.manifest
    /\ history' = w.history
    /\ releases' = w.releases
    /\ tags' = w.tags
    /\ prs' = w.prs
    /\ branches' = w.branches
    /\ calc' = [NoCalc EXCEPT !.call = call, !.target = target, !.changes = changes,
                              !.err = w.err, !.log = w.log]
    /\ UNCHANGED <<faults, last>>

\* main.ts (1.0.4): the catch-up of a release target, with the k-th write
\* request rejected (k = 0: none)
CatchUp(target, k) ==
    LET changes == getReleaseTargetToLatestChanges(manifest, target)
    IN /\ changes # <<>>
       /\ Called(createVersionBumpPullRequest(World(HeadEvent, k), changes, ReleaseMe),
                 "createVersionBumpPullRequest", target, changes)

\* A major release of pkg/a for the target
MajorOf(target) ==
    <<[name |-> Undefined, path |-> "pkg/a",
       currentVersion |-> manifest["pkg/a"][target],
       newVersion |-> Ver(<<2, 0, 0>>, 0), bump |-> "major", releaseTarget |-> target]>>

ReleasePR(target, k) ==
    /\ manifest["pkg/a"].latest # Ver(<<2, 0, 0>>, 0)
    /\ Called(createReleasePullRequest(World(HeadEvent, k), MajorOf(target), ReleaseMe),
              "createReleasePullRequest", target, MajorOf(target))

Returned ==
    /\ calc.call # "none"
    /\ calc' = NoCalc
    /\ UNCHANGED <<remote, faults, last>>

CallNext ==
    \/ \E target \in Targets, k \in 0..MaxFail : CatchUp(target, k)
    \/ \E target \in Targets, k \in 0..MaxFail : ReleasePR(target, k)
    \/ Returned
    \/ \E n \in 1..MaxPRs, del \in BOOLEAN : calc.call = "none" /\ MergePR(n, del)

CallSpec == CallInit /\ [][CallNext]_vars

\* ------------------------------------------------ the text of the manifest
\* A string is a sequence of pieces: a space, a tab, or a piece without white
\* space.  The text JSON.stringify(manifest, null, 2) is a sequence of lines
\* of the kinds
\*   "{"  lead 0    `"<key>": {`  lead 2    `"<key>": "<val>"`  lead 4
\*   "}"  lead 0    `}`           lead 2
\* with `lead` the white space the line starts with.
Tab == "\t"

Spaces(n) == [i \in 1..n |-> " "]

TextLine(kind, n, key, val) == [kind |-> kind, lead |-> Spaces(n), key |-> key, val |-> val]

\* Object.entries of the manifest: the keys in insertion order
PathOrder == <<<<"a">>, <<"b", " ", "c">>, <<"b", " ", " ", "c">>>>

TargetOrder == <<"latest", "main">>

RECURSIVE stringify(_, _)
\* JSON.stringify(manifest, null, 2), from the i-th key on
stringify(object, i) ==
    IF i > Len(PathOrder) THEN <<TextLine("}", 0, <<>>, NoVer)>>
    ELSE (IF i = 1 THEN <<TextLine("{", 0, <<>>, NoVer)>> ELSE <<>>)
         \o (IF PathOrder[i] \notin DOMAIN object THEN <<>>
             ELSE <<TextLine("key", 2, PathOrder[i], NoVer)>>
                  \o [t \in 1..Len(TargetOrder) |->
                         TextLine("val", 4, <<TargetOrder[t]>>,
                                  object[PathOrder[i]][TargetOrder[t]])]
                  \o <<TextLine("end", 2, <<>>, NoVer)>>)
         \o stringify(object, i + 1)

RECURSIVE replaceAll(_, _, _)
\* text.replace(/ {2}/g, indent) on a stretch of text without a quote in it
replaceAll(text, i, indent) ==
    IF i > Len(text) THEN <<>>
    ELSE IF i < Len(text) /\ text[i] = " " /\ text[i + 1] = " "
    THEN indent \o replaceAll(text, i + 2, indent)
    ELSE <<text[i]>> \o replaceAll(text, i + 1, indent)

\* parseInt of the indentation input
parseInt(indentation) ==
    CASE indentation = "1" -> 1 [] indentation = "2" -> 2 [] indentation = "4" -> 4

\* createReleasePullRequest 270-272
IndentOf(indentation) ==
    IF indentation = "tab" THEN <<Tab>> ELSE Spaces(parseInt(indentation))

\* createReleasePullRequest 273-275: every pair of spaces of the text, those
\* inside the keys included, is replaced by the indent
formatReleaseManifest(object, indentation) ==
    LET text == stringify(object, 1)
    IN [i \in 1..Len(text) |->
           [text[i] EXCEPT !.lead = replaceAll(@, 1, IndentOf(indentation)),
                           !.key = replaceAll(@, 1, IndentOf(indentation))]]

\* createVersionBumpPullRequest 414
formatVersionBumpManifest(object, indentation) == stringify(object, 1)

\* The manifest text a write of the Gateway puts on the release branch
manifestText(write, object, indentation) ==
    IF write = "createReleasePullRequest" THEN formatReleaseManifest(object, indentation)
    ELSE formatVersionBumpManifest(object, indentation)

\* JSON.parse(content) in getManifestFromMain 897-898: white space between
\* the tokens is skipped, a tab inside a string is a syntax error, and of two
\* equal keys the later one wins
jsonParse(text) ==
    LET keys == {i \in 1..Len(text) : text[i].kind = "key"}
        IsLast(i) == \A j \in keys : text[j].key = text[i].key => j <= i
        Vals(i) == {j \in 1..Len(text) :
                       /\ j > i /\ text[j].kind = "val"
                       /\ \A x \in i + 1..j : text[x].kind = "val"}
        ValuesOf(i) == [t \in {text[j].key[1] : j \in Vals(i)} |->
                        text[CHOOSE j \in Vals(i) : text[j].key[1] = t].val]
    IN [err |-> \E i \in keys : \E c \in 1..Len(text[i].key) : text[i].key[c] = Tab,
        value |-> [k \in {text[i].key : i \in keys} |->
                      ValuesOf(CHOOSE i \in keys : text[i].key = k /\ IsLast(i))]]

\* The manifests written: any of the paths, each with a version per target
ManifestObjects ==
    UNION {[D -> [latest : {Ver(<<1, 1, 0>>, 0)}, main : {V100, Ver(<<1, 1, 0>>, 0)}]] :
              D \in SUBSET {PathOrder[i] : i \in 1..Len(PathOrder)}}

Indentations == {"tab", "1", "2", "4"}

ManifestWrites == {"createReleasePullRequest", "createVersionBumpPullRequest"}

\* A write of the manifest, and the manifest read back from its text
WriteManifest(write, object, indentation) ==
    /\ calc' = [NoCalc EXCEPT !.write = write, !.indentation = indentation,
                              !.object = object,
                              !.text = manifestText(write, object, indentation),
                              !.readBack = jsonParse(manifestText(write, object,
                                                                  indentation))]
    /\ UNCHANGED <<remote, faults, last>>

\* ---------------------------------------------- the files of a package
\* The version carriers of a package directory, in the order of the checks
Carriers == <<"package.json", "Cargo.toml", "version.txt">>

\* A file of the checkout: whether it exists, the version it carries, and
\* for Cargo.toml whether it has a [package] table
File(exists, version, package) == [exists |-> exists, version |-> version, package |-> package]

\* github.ts updatePackageVersion on the files of the package directory
updatePackageVersion(files, packagePath, newVersion) ==
    LET Written(f) == [err |-> "none", message |-> <<>>,
                       files |-> [files EXCEPT ![f].version = newVersion],
                       written |-> {f}]
    IN IF files["package.json"].exists THEN Written("package.json")
       ELSE IF files["Cargo.toml"].exists
       THEN IF files["Cargo.toml"].package THEN Written("Cargo.toml")
            ELSE [err |-> "none", message |-> <<>>, files |-> files, written |-> {}]
       ELSE IF files["version.txt"].exists THEN Written("version.txt")
       ELSE [err |-> "Error",
             message |-> <<"No package.json, Cargo.toml, or version.txt found in",
                           packagePath>>,
             files |-> files, written |-> {}]

\* createReleasePullRequest 196-285: the files of the tree of the release
\* commit, for one change
treeItems(files, packagePath, newVersion) ==
    IF updatePackageVersion(files, packagePath, newVersion).err # "none" THEN {}
    ELSE (IF files["package.json"].exists THEN {"package.json"} ELSE {})
            \cup {"CHANGELOG.md", ManifestFile}

PackageDirs ==
    [{Carriers[i] : i \in 1..Len(Carriers)} ->
        {File(FALSE, NoVer, FALSE), File(TRUE, V100, FALSE), File(TRUE, V100, TRUE)}]

\* updatePackageVersion, and the tree createReleasePullRequest builds after it
UpdatePackage(files, packagePath, newVersion) ==
    /\ calc' = [NoCalc EXCEPT !.packageFiles = files, !.packagePath = packagePath,
                              !.newVersion = newVersion,
                              !.updated = updatePackageVersion(files, packagePath,
                                                               newVersion),
                              !.treeItems = treeItems(files, packagePath, newVersion)]
    /\ UNCHANGED <<remote, faults, last>>

WriteNext ==
    \/ \E write \in ManifestWrites, object \in ManifestObjects,
          indentation \in Indentations :
          WriteManifest(write, object, indentation)
    \/ \E files \in PackageDirs, packagePath \in {".", "pkg/a"} :
          UpdatePackage(files, packagePath, Ver(<<1, 1, 0>>, 0))

WriteSpec == VersionInit /\ [][WriteNext]_vars

\* ------------------------------------------------------------ the claims
\* A step of Spec that is a workflow run: `last'` is the run, the unprimed
\* variables are the remote it started from.
RunStep == ~last.ran /\ last'.ran

\* The run met no failing request
Clean(l) == l.k = 0 /\ l.soft = "none"

\* The same workflow run started again on the remote the run left
Rerun == run(WorldOf(remote', last'.ev, 0), last'.ev, last'.in, "none")

\* The position of a lifecycle rule in the precedence order of the
\* orchestrator (spec 4.3: 1 deleted branch, 2 released, 3 prerelease
\* disabled, 4-5 nothing to release, 6 prerelease, 7 merged release or squash
\* merge, 9 release PR)
RuleKind(rule) ==
    CASE rule = "deleted-branch" -> 1
      [] rule = "already-released" -> 2
      [] rule = "prerelease-disabled" -> 3
      [] rule \in {"empty-manifest", "no-commits", "no-changes"} -> 5
      [] rule = "prerelease" -> 6
      [] rule \in {"merged-release", "squash-release"} -> 7
      [] rule = "release-pr" -> 9

\* The first rule of the precedence order whose guard holds
FirstMatch(w, e, in, soft) ==
    LET c == Snapshot(w, e, in, soft)
    IN IF c.isDeletedReleaseBranch THEN 1
       ELSE IF Released \in c.labels THEN 2
       ELSE IF c.isPrerelease /\ ~in.createPreReleases THEN 3
       ELSE IF \/ DOMAIN c.manifest = {}
               \/ Len(c.allCommits) = 0
               \/ Len(c.changes) = 0 THEN 5
       ELSE IF c.isPrerelease THEN 6
       ELSE IF \/ ReleaseMe \in c.labels /\ ResolvePR(w, e, c, soft) # 0
               \/ wasManifestUpdatedInLastCommit(w, ManifestFile, RootDir, soft) THEN 7
       ELSE 9

Ops(log, ops) == {i \in 1..Len(log) : log[i].op \in ops}

\* The write paths a run took: cutting releases, opening or updating the
\* release PR, opening the version-bump PR
WritePaths(log) ==
    Ops(log, {"createRelease", "createReleasePullRequest", "createVersionBumpPullRequest"})

SkipOutcomes ==
    {"deleted-branch", "already-released", "prerelease-disabled", "empty-manifest",
     "no-commits", "no-changes"}

\* The run r, started on the remote of the primed state, leaves its pull
\* requests, tags and releases as they are there
AddsNothing(r) ==
    /\ Len(r.prs) = Len(prs')
    /\ r.tags = tags'
    /\ r.releases = releases'

PartialRelease ==
    /\ RunStep
    /\ last'.k # 0
    /\ last'.outcome = "failed"
    /\ Cardinality(last'.planned) > 1
    /\ Len(releases') > Len(releases)
    /\ \E t \in last'.planned : ~ReleaseExists(WorldOf(remote', last'.ev, 0), t)

\* C3: when a final release of several packages failed part-way, the same run
\* started again with no other remote change does not conclude that nothing
\* is left to release; it leaves every package of the change set with its
\* tag and release.
C3_RerunCompletesRelease ==
    [][PartialRelease =>
         /\ Rerun.outcome \notin {"no-commits", "no-changes"}
         /\ \A t \in last'.planned : TagExists(Rerun, t) /\ ReleaseExists(Rerun, t)]_vars

\* What the run `last'` read from the remote it started from
Read == Snapshot(World(last'.ev, 0), last'.ev, last'.in, last'.soft)

\* The PR the run `last'` resolves for its commit (0: none)
Resolved == ResolvePR(World(last'.ev, 0), last'.ev, Read, last'.soft)

\* The log entries of the run in which the label is put on a PR
Labelled(l, label) == {i \in Ops(l.log, {"addLabel"}) : l.log[i].label = label}

\* The releases of the list that are not prereleases, by tag
FinalReleases(rs) == {rs[j].tag : j \in {x \in 1..Len(rs) : ~rs[x].prerelease}}

\* C4: a run under the merged-release rule (labels include release-me, a PR
\* is resolved) puts the `released` label on the resolved PR only after the
\* tag and release request of every computed change; a run in which no
\* request failed leaves every computed change with its tag and its
\* non-prerelease release and the PR labelled `released` and no longer
\* `release-me`; a run that failed before every change was released puts no
\* label.
C4_ReleaseThenLabel ==
    [][RunStep /\ last'.rules = <<"merged-release">> =>
         LET l == last'
             changes == Read.changes
             opsCut == Ops(l.log, {"createRelease", "createTag", "createRelease.release",
                                   "warning"})
         IN /\ ReleaseMe \in Read.labels
            /\ Resolved # 0
            /\ \A i \in Labelled(l, Released) :
                  /\ l.log[i].pr = Resolved
                  /\ Len(l.cut) = Len(changes)
                  /\ \A j \in Ops(l.log, {"createTag", "createRelease.release"}) : j < i
            /\ Len(l.cut) < Len(changes) =>
                  /\ l.outcome = "failed"
                  /\ Labelled(l, Released) = {}
                  /\ prs'[Resolved].labels = prs[Resolved].labels
            /\ Clean(l) =>
                  /\ l.outcome = "merged-release"
                  /\ Len(l.cut) = Len(changes)
                  /\ \A i \in 1..Len(changes) :
                        LET t == TagName(changes[i].path,
                                         manifest[changes[i].path][l.in.target])
                        IN /\ l.cut[i].tag = t
                           /\ \E x \in tags' : x.name = t
                           /\ t \in FinalReleases(releases')
                  /\ Released \in prs'[Resolved].labels
                  /\ ReleaseMe \notin prs'[Resolved].labels]_vars

\* A run on the event of a merged release PR created a release and then put
\* the label on the PR
C4_Witness ==
    /\ last.ran
    /\ last.outcome = "merged-release"
    /\ \E i \in 1..Len(last.cut) : last.cut[i].created
    /\ Labelled(last, Released) # {}
    /\ Released \in prs[last.ev.pullRequestNumber].labels

\* None of the rules that precede the merged-release rule applies to the run
NoEarlierRule ==
    /\ ~Read.isDeletedReleaseBranch
    /\ Released \notin Read.labels
    /\ ~Read.isPrerelease
    /\ Read.headExists
    /\ DOMAIN Read.manifest # {}
    /\ Len(Read.allCommits) # 0
    /\ Len(Read.changes) # 0

\* The latest commit of main changed the manifest file
ManifestChangedInLastCommit ==
    /\ Len(history) > 0
    /\ ManifestFile \in history[Len(history)].files
    /\ history[Len(history)].patch # {}

\* C5: a run on the head of main in which no lookup fails, to which no
\* earlier rule applies and for which no release PR is resolved cuts the final releases of all
\* computed changes and adds no label when the latest commit changed the
\* manifest file, and opens or updates the release PR without cutting a
\* release when it did not.
C5_SquashMergeDetected ==
    [][RunStep /\ Clean(last') /\ NoEarlierRule
          /\ last'.ev.sha = Len(history)
          /\ ~(ReleaseMe \in Read.labels /\ Resolved # 0) =>
         IF ManifestChangedInLastCommit
         THEN /\ last'.rules = <<"squash-release">>
              /\ Len(last'.cut) = Len(Read.changes)
              /\ Ops(last'.log, {"addLabel"}) = {}
         ELSE /\ last'.rules = <<"release-pr">>
              /\ last'.cut = <<>>]_vars

\* C6: a run on a PR that carries the prerelease label, with prereleases
\* enabled, opens or updates no release PR, and every release it creates is
\* flagged as a prerelease and tagged with the -rc.N version the run
\* computed for the package.
C6_PrereleaseCutsCandidates ==
    [][RunStep /\ Read.isPrerelease /\ last'.in.createPreReleases =>
         /\ Ops(last'.log, {"createReleasePullRequest", "pulls.create", "pulls.update"}) = {}
         /\ Len(prs') = Len(prs)
         /\ \A j \in (Len(releases) + 1)..Len(releases') : releases'[j].prerelease
         /\ \A i \in 1..Len(last'.cut) :
               last'.cut[i].created =>
                  /\ last'.cut[i].planned.rc > 0
                  /\ last'.cut[i].tag = TagName(last'.cut[i].path, last'.cut[i].planned)]_vars

\* The -rc.N ordinals of the releases of a package and base version
RcOrdinals(rs, path, base) ==
    {rs[j].tag.ver.rc : j \in {x \in 1..Len(rs) :
        /\ rs[x].tag.pkg = TagName(path, base).pkg
        /\ rs[x].tag.ver.v = base.v
        /\ rs[x].tag.ver.rc > 0}}

\* C7: the ordinal a prerelease run in which no request fails assigns to a
\* package is one more than the highest -rc.N among the existing prerelease
\* tags of that package and base version, and 1 when there is none.
C7_NextRcOrdinal ==
    [][RunStep /\ Clean(last') /\ last'.rules = <<"prerelease">> =>
         \A i \in 1..Len(last'.cut) :
            LET have == RcOrdinals(releases, last'.cut[i].path, last'.cut[i].planned)
            IN last'.cut[i].planned.rc = IF have = {} THEN 1 ELSE MaxOf(have) + 1]_vars

\* C8 as stated: a run on a PR that carries `released` changes nothing on
\* the remote and issues no write request; a run on a PR that carries the
\* prerelease label with prereleases disabled changes nothing on the remote,
\* issues one request, the comment, or logs one warning, and computes no
\* version.
C8_SkipsWriteNothingAsStated ==
    [][RunStep =>
         /\ Released \in Read.labels =>
               /\ remote' = remote
               /\ last'.log = <<>>
         /\ Read.isPrerelease /\ ~last'.in.createPreReleases =>
               /\ remote' = remote
               /\ Len(last'.log) = 1
               /\ last'.log[1].op \in {"warning", "createComment"}
               /\ ~last'.computed]_vars

\* C8, amended: a run that is not on a deleted release branch (the rule that
\* precedes) and whose PR carries `released` changes nothing on the remote
\* and issues no write request; such a run whose PR carries the prerelease
\* label and not `released`, with prereleases disabled, changes nothing on
\* the remote, issues exactly one request, the comment, or logs one warning
\* when that is rejected, reports no failure and computes no version.
C8_SkipsWriteNothing ==
    [][RunStep /\ ~Read.isDeletedReleaseBranch =>
         /\ Released \in Read.labels =>
               /\ last'.outcome = "already-released"
               /\ remote' = remote
               /\ last'.log = <<>>
               /\ ~last'.computed
         /\ Released \notin Read.labels /\ Read.isPrerelease /\ ~last'.in.createPreReleases =>
               /\ last'.outcome = "prerelease-disabled"
               /\ remote' = remote
               /\ Len(last'.log) = 1
               /\ last'.log[1].op = IF last'.k = 1 THEN "warning" ELSE "createComment"
               /\ last'.failed = 0
               /\ ~last'.computed]_vars

\* A run on a released PR stopped at once
C8_Witness ==
    /\ last.ran
    /\ last.outcome = "already-released"
    /\ last.ev.isPullRequest
    /\ Released \in prs[last.ev.pullRequestNumber].labels

\* C9: a run in which no request is rejected, on a release branch that no
\* longer exists and a PR that carries release-me, leaves the PR labelled
\* `released` and not `release-me`, creates no tag, release or PR and does
\* not report failure.
C9_DeletedBranchSettlesLabel ==
    [][RunStep /\ Clean(last') /\ Read.isDeletedReleaseBranch
          /\ ReleaseMe \in Read.labels =>
         /\ Released \in prs'[last'.ev.pullRequestNumber].labels
         /\ ReleaseMe \notin prs'[last'.ev.pullRequestNumber].labels
         /\ tags' = tags /\ releases' = releases /\ Len(prs') = Len(prs)
         /\ last'.failed = 0
         /\ last'.outcome = "deleted-branch"]_vars

\* C10: in every step, the `latest` of every package stays greater than or
\* equal to each of its target versions, and neither `latest` nor a target
\* version of the manifest on main decreases.
C10_ManifestMonotonic ==
    [][\A p \in DOMAIN manifest :
         /\ p \in DOMAIN manifest'
         /\ \A t \in Targets :
               /\ VerLeq(manifest'[p][t], manifest'[p].latest)
               /\ VerLeq(manifest[p][t], manifest'[p][t])
         /\ VerLeq(manifest[p].latest, manifest'[p].latest)]_vars

\* The run pointed the release branch of its target at a new commit
WroteBranch(l) == Ops(l.log, {"createRef", "updateRef"}) # {}

\* C11: the manifest createReleasePullRequest commits to the release branch
\* has, for every changed package, `latest` and the release target of the run
\* at the new version of the change; every other target of a changed package
\* and every other package entry are as in the manifest the call edited.
C11_ManifestEdit ==
    [][RunStep /\ WroteBranch(last') =>
         LET t == last'.in.target
             m == branches'[t].manifest
             old == last'.ev.wc
             ch == Read.changes
             paths == {ch[i].path : i \in 1..Len(ch)}
         IN /\ DOMAIN m = DOMAIN old \cup paths
            /\ \A i \in 1..Len(ch) :
                  /\ m[ch[i].path].latest = ch[i].newVersion
                  /\ m[ch[i].path][t] = ch[i].newVersion
                  /\ \A u \in Targets \ {t} :
                        ch[i].path \in DOMAIN old => m[ch[i].path][u] = old[ch[i].path][u]
            /\ \A p \in DOMAIN m \ paths : m[p] = old[p]]_vars

\* A release-PR run committed a manifest in which a package is ahead on the
\* target of the run and unchanged on the other target
C11_Witness ==
    /\ last.ran
    /\ last.outcome = "release-pr"
    /\ WroteBranch(last)
    /\ LET t == last.in.target
       IN \E p \in DOMAIN branches[t].manifest, u \in Targets \ {t} :
             /\ p \in DOMAIN last.ev.wc
             /\ branches[t].manifest[p][t] # last.ev.wc[p][t]
             /\ branches[t].manifest[p][u] = last.ev.wc[p][u]
             /\ branches[t].manifest[p][u] # branches[t].manifest[p][t]

\* C12: the manifest a run commits to the release branch is the manifest of
\* the default branch at the start of the run with the edits of the run, also
\* when the manifest of the working copy differs from it.
C12_CommitsMainManifest ==
    [][RunStep /\ WroteBranch(last') =>
         branches'[last'.in.target].manifest =
            updateManifest(manifest, Read.changes, last'.in.target, 1)]_vars

\* The open pull requests of r whose head is the release branch of target t
OpenReleasePRs(r, t) ==
    {n \in 1..Len(r) : r[n].state = "open" /\ r[n].head = ReleaseBranch(t)}

\* C13: a run that takes the release-PR path and meets no failing request
\* leaves at most one open PR of the branch `release-<target>`; it updates
\* the open PR of that branch when there is one and creates a PR only when
\* there is none, and the PR it leaves carries `release-me` and
\* `release-target:<target>`.
C13_UpsertReleasePR ==
    [][RunStep /\ Clean(last') /\ last'.rules = <<"release-pr">> =>
         LET t == last'.in.target
             before == OpenReleasePRs(prs, t)
             after == OpenReleasePRs(prs', t)
         IN /\ Cardinality(after) = 1
            /\ last'.outcome = "release-pr"
            /\ before # {} => /\ Ops(last'.log, {"pulls.update"}) # {}
                              /\ Ops(last'.log, {"pulls.create"}) = {}
                              /\ after = before
            /\ before = {} => Ops(last'.log, {"pulls.create"}) # {}
            /\ \A n \in after : {ReleaseMe, TargetLabel(t)} \subseteq prs'[n].labels]_vars

\* The files of the packages of a change set
PackageFiles(ch) ==
    {f \in Files : \E i \in 1..Len(ch) : StartsWith(f, ch[i].path)}

\* C14: a run that points the release branch of its target at a commit
\* leaves the branch at a new commit whose only parent is the head of main
\* and whose tree differs from the tree of main in the manifest and in files
\* of the changed packages only, whether the branch existed before (forced
\* update) or not: no commit the branch pointed at earlier is an ancestor.
C14_BranchOnMain ==
    [][RunStep /\ WroteBranch(last') =>
         LET t == last'.in.target
             b == branches'[t]
         IN /\ b # NoBranch
            /\ b.base = Len(history)
            /\ history' = history
            /\ b.commit.pr = 0
            /\ ManifestFile \in b.commit.files
            /\ b.commit.files \subseteq {ManifestFile} \cup PackageFiles(Read.changes)
            /\ Ops(last'.log, {"updateRef"}) # {} <=> branches[t] # NoBranch]_vars

\* A run moved an existing release branch, opened when main was at an older
\* commit, onto the head of main
C14_Witness ==
    /\ last.ran
    /\ Ops(last.log, {"updateRef"}) # {}
    /\ LET t == last.in.target
       IN /\ branches[t].base = Len(history)
          /\ \E n \in OpenReleasePRs(prs, t) : prs[n].base < branches[t].base

\* The title of the release PR of a change set as the specification gives it
\* (6.2): the version for a single root change, <path>@<version> for a single
\* sub-package change, the release target for several changes
TitleOfChangeSet(ch) ==
    IF Len(ch) = 1
    THEN IF ch[1].path = "."
         THEN Title("chore: release <version>", "", ch[1].newVersion, "")
         ELSE Title("chore: release <name>@<version>", ch[1].path, ch[1].newVersion, "")
    ELSE Title("chore: release <target>", "", NoVer, ch[1].releaseTarget)

\* C15: the title of the release PR a run opens or updates is a function of
\* the change set of the run only: `chore: release <version>` for a single
\* root-package change, `chore: release <path>@<version>` for a single
\* sub-package change, `chore: release <target>` for several changes.
C15_TitleOfChangeSet ==
    [][RunStep /\ last'.outcome = "release-pr" =>
         \A n \in OpenReleasePRs(prs', last'.in.target) :
             prs'[n].title = TitleOfChangeSet(Read.changes)]_vars

\* The merged release PRs that still carry the release labels of target t and
\* whose merge commit is the head of main: the manifest on main is the
\* manifest the PR produced
FreshlyMerged(t) ==
    {n \in 1..Len(prs) :
        /\ prs[n].merged
        /\ prs[n].head = ReleaseBranch(t)
        /\ {ReleaseMe, TargetLabel(t)} \subseteq prs[n].labels
        /\ Len(history) > 0
        /\ history[Len(history)].pr = n}

\* C16: title-based rediscovery round-trips. For a merged release PR that
\* carries the release labels, the title findReleasePRByVersions derives from
\* the manifest the PR produced is the title createReleasePullRequest gave
\* the PR, and the lookup finds that PR.
C16_TitleRoundTrip ==
    \A t \in Targets : \A n \in FreshlyMerged(t) :
        /\ generateReleasePRTitle(ManifestChanges(manifest, 1, <<>>)) = prs[n].title
        /\ findReleasePRByVersions(WorldOf(remote, PushEvent(Len(history)), 0),
                                   manifest, t) = n

\* The tag of a package version as the specification names it: `v<version>`
\* for the root package, `<path>-v<version>` otherwise
TagOfPath(path, version) == [pkg |-> IF path = "." THEN "" ELSE path, ver |-> version]

\* C17: a run that cuts releases creates one tag and one release for every
\* package change, the tag named `v<version>` for the root package and
\* `<path>-v<version>` for any other package, so the tags of two different
\* packages differ also when their versions are equal.
C17_TagPerPackage ==
    [][RunStep /\ Clean(last') /\ last'.cut # <<>> =>
         LET cut == last'.cut
         IN /\ \A i \in 1..Len(cut) : cut[i].tag = TagOfPath(cut[i].path, cut[i].tag.ver)
            /\ \A i, j \in 1..Len(cut) : cut[i].tag = cut[j].tag => i = j]_vars

\* The log entries of a run that warn of an existing tag or release
Warnings(l, what) == {i \in Ops(l.log, {"warning"}) : l.log[i].label = <<what>>}

\* The run left createRelease before every planned package was processed
Aborted(l) == Ops(l.log, {"createRelease"}) # {} /\ Len(l.cut) < Cardinality(l.planned)

\* The names of the tags of the remote, and the tags of its releases
TagNames(ts) == {r.name : r \in ts}
ReleaseTags(rs) == {rs[i].tag : i \in 1..Len(rs)}

\* C18: in createRelease a tag or release that already exists is a warning
\* and processing continues with the next request: a run without a rejected
\* request processes every planned package, warns once for each planned tag
\* and release that existed, and leaves every planned tag and release
\* present.  Any other failure of a creation request aborts createRelease:
\* the run then stops with nothing done after the failed request and reports
\* failure.
C18_ConflictIsWarning ==
    [][RunStep /\ Ops(last'.log, {"createRelease"}) # {} =>
         LET l == last'
         IN /\ Clean(l) =>
                 /\ ~Aborted(l)
                 /\ Cardinality(Warnings(l, "tag exists")) =
                       Cardinality(l.planned \cap TagNames(tags))
                 /\ Cardinality(Warnings(l, "release exists")) =
                       Cardinality(l.planned \cap ReleaseTags(releases))
                 /\ TagNames(tags') = TagNames(tags) \cup l.planned
                 /\ ReleaseTags(releases') = ReleaseTags(releases) \cup l.planned
                 /\ Len(releases') = Len(releases)
                                       + Cardinality(l.planned \ ReleaseTags(releases))
            /\ Aborted(l) =>
                 /\ l.k # 0
                 /\ l.outcome = "failed"
                 /\ l.failed = 2
                 /\ l.log[Len(l.log)].op \in
                       {"createRelease", "createTag", "createRelease.release", "warning"}
            /\ l.k # 0 /\ l.log[Len(l.log)].op \in {"createRelease", "createTag"}
                 => l.outcome = "failed" /\ l.failed = 2]_vars

\* A run found the tag of a package present, warned, and went on to create
\* the release
C18_Witness ==
    /\ last.ran
    /\ last.outcome # "failed"
    /\ \E i \in Warnings(last, "tag exists") :
          \E j \in Ops(last.log, {"createRelease.release"}) : i < j

\* The order none < patch < minor < major of the version bumps
Rank(b) == CASE b = "major" -> 3 [] b = "minor" -> 2 [] b = "patch" -> 1 [] OTHER -> 0

\* The bump of one commit: major when breaking, else the bump of its type
BumpOf(c) == IF c.breaking THEN "major" ELSE CONVENTIONAL_COMMIT_TYPES[c.type]

\* The highest bump among the commits of a list, none for the empty list
MaxBump(commits) ==
    CHOOSE b \in Bumps :
        /\ b = "none" \/ \E i \in 1..Len(commits) : BumpOf(commits[i]) = b
        /\ \A i \in 1..Len(commits) : Rank(BumpOf(commits[i])) <= Rank(b)

\* The list of commits in the order p
Reordered(commits, p) == [i \in 1..Len(commits) |-> commits[p[i]]]

\* C19: determineVersionBump returns major if any commit is breaking and
\* otherwise the highest, under none < patch < minor < major, of the bumps of
\* the commit types; the result is the same for every order of the commits
\* and never decreases when a commit is appended.
C19_BumpIsMax ==
    /\ [](/\ calc.bump = MaxBump(calc.commits)
          /\ \A p \in Permutations(1..Len(calc.commits)) :
                determineVersionBump(Reordered(calc.commits, p)) = calc.bump)
    /\ [][Rank(calc'.bump) >= Rank(calc.bump)]_vars

\* Three commits classified, a feat before a fix and a docs commit last:
\* the bump is minor
C19_Witness ==
    /\ Len(calc.commits) = 3
    /\ calc.commits[1].type = "feat"
    /\ calc.commits[2].type = "fix"
    /\ calc.commits[3].type = "docs"
    /\ calc.bump = "minor"

\* C20: calculateNewVersion without prerelease increments exactly the
\* component the bump names and sets the lower components to zero, returns
\* the current version unchanged for the bump none, and rejects a current
\* version that is not valid semver with an "Invalid version" error.
C20_Increment ==
    LET cur == calc.current
        n == cur.nums
        r == calc.result
    IN IF Len(n) # 3 THEN r.err = "Invalid version"
       ELSE /\ r.err = "none"
            /\ ~calc.isPreRelease =>
                  /\ calc.kind = "none" => r.value = cur
                  /\ calc.kind = "major" => r.value = Text("", <<n[1] + 1, 0, 0>>, <<>>)
                  /\ calc.kind = "minor" => r.value = Text("", <<n[1], n[2] + 1, 0>>, <<>>)
                  /\ calc.kind = "patch" =>
                        r.value = Text("", <<n[1], n[2], n[3] + 1>>, <<>>)

\* A minor bump of a version with a patch number above zero
C20_Witness ==
    /\ ~calc.isPreRelease
    /\ calc.kind = "minor"
    /\ calc.current.nums = <<1, 0, 1>>
    /\ calc.result.err = "none"
    /\ calc.result.value.nums = <<1, 1, 0>>

\* C21: with isPreRelease true calculateNewVersion returns the bumped
\* version followed by `-rc.<n>` for the supplied ordinal n, and the
\* prerelease step applied again with the same n to that result returns the
\* result unchanged.
C21_PrereleaseIdempotent ==
    calc.isPreRelease /\ calc.preReleaseNumber > 0 /\ calc.result.err = "none" =>
        IF calc.again THEN calc.result.value = calc.prev
        ELSE LET bumped == calculateNewVersion(calc.current, calc.kind, FALSE, 0).value
             IN calc.result.value =
                   [bumped EXCEPT !.pre = Append(@, calc.preReleaseNumber)]

\* The line is a conventional header `type(scope)?!?: subject` of one of the
\* eleven known types
IsHeader(line) ==
    /\ line.type \in DOMAIN CONVENTIONAL_COMMIT_TYPES
    /\ line.scope \in {"", "(core)"}
    /\ line.sep
    /\ line.subject # ""

C23_SquashHeader ==
    LET m == calc.message
        r == calc.parsed
    IN Len(m) >= 3 /\ m[1] = Plain("") /\ IsHeader(m[2]) =>
          /\ r.type = m[2].type
          /\ r.breaking = m[2].bang
          /\ r.message = <<Plain(m[2].subject)>>

\* The list items of a changelog, section after section
RECURSIVE AllItems(_, _)
AllItems(log, k) == IF k > Len(log) THEN <<>> ELSE log[k].items \o AllItems(log, k + 1)

\* The position of a section title in the fixed order of the sections
TitleIndex(title) == CHOOSE k \in 1..Len(SectionTitles) : SectionTitles[k] = title

\* The commits of a list whose type is `type`, as list items in input order
ItemsOfType(commits, types) ==
    LET picked == SelectSeq(commits, LAMBDA c : c.type \in types)
    IN [i \in 1..Len(picked) |-> [marker |-> picked[i].breaking,
                                  message |-> picked[i].message]]

\* C24: the output of generateChangelog has a Features section if and only
\* if the input has a feat commit, and the entry of every breaking commit
\* carries the marker `**BREAKING CHANGE:**`, whatever its section.
C24_FeaturesAndBreaking ==
    LET log == calc.changelog
        cs == calc.entries
        items == AllItems(log, 1)
    IN /\ (\E k \in 1..Len(log) : log[k].title = "Features")
             <=> (\E i \in 1..Len(cs) : cs[i].type = "feat")
       /\ \A i \in 1..Len(cs) :
             \E j \in 1..Len(items) :
                items[j].message = cs[i].message /\ items[j].marker = cs[i].breaking

\* A changelog with a breaking commit outside the Features section and a
\* feat commit
C24_Witness ==
    /\ \E i \in 1..Len(calc.entries) : calc.entries[i].type = "feat"
    /\ \E k \in 1..Len(calc.changelog) :
          /\ calc.changelog[k].title = "CI"
          /\ calc.changelog[k].items[1].marker

\* C25: generateChangelog lists every input commit exactly once. The
\* sections appear in the fixed order features, fixes, docs, refactors, perf,
\* tests, chores, reverts, build, ci; empty sections are omitted; the entries
\* of a section keep the input order; a commit of type style or of an
\* unknown type is listed under chores.
C25_EveryCommitOnce ==
    LET log == calc.changelog
        cs == calc.entries
        known == {"feat", "fix", "docs", "refactor", "perf", "test", "chore", "revert",
                  "build", "ci"}
        order == <<"feat", "fix", "docs", "refactor", "perf", "test", "chore", "revert",
                   "build", "ci">>
    IN /\ Len(AllItems(log, 1)) = Len(cs)
       /\ \A k \in 1..Len(log) :
             /\ log[k].items # <<>>
             /\ \A j \in 1..Len(log) : k < j =>
                   TitleIndex(log[k].title) < TitleIndex(log[j].title)
             /\ log[k].items =
                   ItemsOfType(cs, IF log[k].title = "Chores"
                                   THEN {c.type : c \in ChangelogCommits} \ (known \ {"chore"})
                                   ELSE {order[TitleIndex(log[k].title)]})
       /\ \A i \in 1..Len(cs) : cs[i].type \notin known =>
             \E k \in 1..Len(log) :
                /\ log[k].title = "Chores"
                /\ \E j \in 1..Len(log[k].items) : log[k].items[j].message = cs[i].message

\* A changelog of three commits: a style commit and a commit of an unknown
\* type, in that order under Chores, after a Features section
C25_Witness ==
    /\ calc.entries # <<>>
    /\ Len(calc.changelog) = 2
    /\ calc.changelog[1].title = "Features"
    /\ calc.changelog[2].title = "Chores"
    /\ calc.changelog[2].items = <<[marker |-> FALSE, message |-> "d"],
                                   [marker |-> FALSE, message |-> "e"]>>

\* ---------------------------------------------------------------- C26
\* A file lies inside the directory of a package
InDirectory(file, p) ==
    \/ p = "pkg/a" /\ file = "pkg/a/f"
    \/ p = "lib" /\ file = "lib/f"
    \/ p = "lib-utils" /\ file = "lib-utils/f"

Looked == calc.packagePath # ""

\* C26: getCommitsSinceLastRelease returns every commit for the root package
\* ".", and for any other package exactly the commits that touch at least one
\* file inside the directory of that package, in input order; a commit that
\* touches only files of another package, one whose path merely begins with
\* the same characters included, is not attributed to it.
C26_OwnDirectoryOnly ==
    LET Inside(commit) == \E f \in commit.files : InDirectory(f, calc.packagePath)
    IN Looked =>
          calc.attributed = IF calc.packagePath = "." THEN calc.allCommits
                            ELSE SelectSeq(calc.allCommits, Inside)

\* ---------------------------------------------------------------- C27
NonPrereleases == {i \in 1..Len(releases) : ~releases[i].prerelease}

Newest(S) == CHOOSE i \in S : \A j \in S : j <= i

\* The position on main the comparison starts from: the tag of the newest
\* release that is not a prerelease, else min(50, N) - 1 commits before HEAD
AnchorPosition ==
    IF NonPrereleases # {}
    THEN (CHOOSE t \in tags : t.name = releases[Newest(NonPrereleases)].tag).at
    ELSE IF Len(history) + 1 <= Lookback THEN 0
    ELSE Len(history) - (Lookback - 1)

\* C27: getAllCommitsSinceLastRelease compares from the tag of the first
\* release of the list that is not a prerelease, never from a prerelease;
\* without such a release it compares from HEAD~(min(50, N) - 1) for N
\* commits, so it looks back at most 50 commits and never before the first.
C27_Anchor ==
    Looked =>
       /\ AnchorPosition >= 0
       /\ calc.allCommits =
             SelectSeq(SubSeqFrom(history, AnchorPosition + 1, Len(history)), IsRelevant)
       /\ NonPrereleases = {} => Len(calc.allCommits) <= Lookback

C27_Witness ==
    /\ Looked
    /\ NonPrereleases = {}
    /\ Len(releases) > 0
    /\ Len(history) = MaxHistory
    /\ Len(calc.allCommits) = Lookback - 1

\* ---------------------------------------------------------------- C28
Output(name, value) == last.out[name] = [set |-> TRUE, value |-> value]

CutCreated(i) == last.cut[i].created

\* C28: the outputs of a run describe what it released: `releases-created`
\* is true exactly when the run cut at least one release; `version` carries
\* the released version when exactly one package changed, otherwise
\* `versions` carries one {path, target, version} entry per changed package,
\* each with the version of the tag created for the package; `prerelease` is
\* true exactly for the runs on a pull request with the prerelease label.
C28_OutputsDescribeRelease ==
    last.ran /\ last.outcome # "failed" =>
       /\ Output("releases-created", TRUE) <=> \E i \in 1..Len(last.cut) : CutCreated(i)
       /\ Len(last.cut) = 1 => Output("version", last.cut[1].tag.ver)
       /\ Len(last.cut) > 1 =>
             Output("versions", [i \in 1..Len(last.cut) |->
                                    [path |-> last.cut[i].path, target |-> last.in.target,
                                     version |-> last.cut[i].tag.ver]])
       /\ Output("prerelease", TRUE) <=> \E i \in 1..Len(last.rules) : last.rules[i] = "prerelease"

C30_ReportedOnce ==
    last.ran /\ last.err # "none" =>
       /\ last.outcome = "failed"
       /\ last.reported = <<IF last.err = "Error" THEN last.message
                            ELSE "An unknown error occurred">>

\* ---------------------------------------------------------------- C31
\* The run `last'` read an empty manifest from main
ReadEmptyManifest == last'.soft \in {"manifest", "releaseManifest"}

\* C31: the read lookups of the Gateway fail soft: a lookup that fails
\* returns its absence value (the empty manifest, no PR, false, the ordinal
\* 1) and never throws, and a run that reads an empty manifest stops, without
\* a failure and without any write.
C31_ReadsFailSoft ==
    [][RunStep =>
         LET w == World(last'.ev, 0)
         IN /\ getManifestFromMain(w, "manifest") = EmptyManifest
            /\ getPullRequestFromCommit(w, last'.ev.sha, "prFromCommit") = 0
            /\ ~wasManifestUpdatedInLastCommit(w, ManifestFile, RootDir, "manifestUpdated")
            /\ \A p \in DOMAIN manifest : getLatestRcVersion(w, p, V100, "rc") = 1
            /\ ReadEmptyManifest =>
                  /\ last'.outcome # "failed"
                  /\ last'.reported = <<>>
                  /\ remote' = remote
                  /\ \A i \in 1..Len(last'.log) : last'.log[i].op = "warning"]_vars

\* ---------------------------------------------------------------- C32
\* The white space a line of the kind starts with, for an indent
LeadOf(kind, indent) ==
    CASE kind \in {"{", "}"} -> <<>>
      [] kind \in {"key", "end"} -> indent
      [] kind = "val" -> indent \o indent

\* C32: for every manifest and every configured indentation (tab or N
\* spaces) the manifest text written by the Gateway parses as JSON equal to
\* the manifest written, and it is indented in the configured style, for the
\* write of the release PR and for the write of the version-bump PR alike.
C32_ManifestRoundTrip ==
    calc.write # "none" =>
       /\ ~calc.readBack.err
       /\ calc.readBack.value = calc.object
       /\ \A i \in 1..Len(calc.text) :
             calc.text[i].lead = LeadOf(calc.text[i].kind, IndentOf(calc.indentation))

\* ---------------------------------------------------------------- C33
Updated == calc.newVersion # NoVer

CarrierFiles == {Carriers[i] : i \in 1..Len(Carriers)}

\* The first carrier of the priority order that exists ("" when none does)
FirstCarrier(files) ==
    IF \A f \in CarrierFiles : ~files[f].exists THEN ""
    ELSE Carriers[CHOOSE i \in 1..Len(Carriers) :
                     /\ files[Carriers[i]].exists
                     /\ \A j \in 1..i - 1 : ~files[Carriers[j]].exists]

\* C33: updatePackageVersion picks the version carrier in the priority
\* package.json, Cargo.toml, version.txt: a successful call writes the new
\* version into exactly one of these files, the first that exists, and
\* touches no other; a package with none of the three makes the call fail
\* with `No package.json, Cargo.toml, or version.txt found in <path>`.
C33_OneCarrier ==
    Updated =>
       LET first == FirstCarrier(calc.packageFiles)
       IN IF first = ""
          THEN /\ calc.updated.err = "Error"
               /\ calc.updated.message =
                     <<"No package.json, Cargo.toml, or version.txt found in",
                       calc.packagePath>>
               /\ calc.updated.files = calc.packageFiles
          ELSE /\ calc.updated.err = "none"
               /\ calc.updated.written = {first}
               /\ calc.updated.files[first].version = calc.newVersion
               /\ \A f \in CarrierFiles \ {first} :
                     calc.updated.files[f] = calc.packageFiles[f]

\* ---------------------------------------------------------------- C40
\* C40: for every changed package the commit placed on the release branch
\* contains the version-carrier file of the package that updatePackageVersion
\* rewrote, together with its CHANGELOG.md and the manifest.
C40_CarrierInCommit ==
    Updated /\ calc.updated.err = "none" =>
       /\ calc.updated.written \subseteq calc.treeItems
       /\ {"CHANGELOG.md", ManifestFile} \subseteq calc.treeItems

\* ---------------------------------------------------------------- C34
\* The log entry before entry i is the removal of release-me from the same
\* PR, or the warning of its failure
AfterRemoval(log, i) ==
    /\ i > 1
    /\ \/ log[i - 1].op = "warning" /\ Len(log[i - 1].label) = 0
       \/ /\ log[i - 1].op = "removeLabel"
          /\ log[i - 1].label = ReleaseMe
          /\ log[i - 1].pr = log[i].pr

\* addLabel called on the remote the run left, with the first request
\* rejected (k = 1) or none (k = 0)
AddLabelAfter(k, label, n) == addLabel(WorldOf(remote', last'.ev, k), label, n)

\* C34: addLabel with `released` first attempts to remove `release-me` from
\* the PR and then adds `released`; a failed removal (the label is not on the
\* PR, or the request is rejected) is only logged as a warning and `released`
\* is still added; adding any other label performs no removal.
C34_ReleasedReplacesReleaseMe ==
    [][RunStep =>
         LET log == last'.log
         IN /\ \A i \in Ops(log, {"addLabel"}) :
                  IF log[i].label = Released THEN AfterRemoval(log, i)
                  ELSE i = 1 \/ log[i - 1].op \notin {"removeLabel", "warning"}
            /\ \A n \in 1..Len(prs'), k \in 0..1 :
                  LET w == AddLabelAfter(k, Released, n)
                      had == ReleaseMe \in prs'[n].labels
                  IN /\ w.err = "none"
                     /\ Len(w.log) = 2
                     /\ w.log[1].op = IF had /\ k = 0 THEN "removeLabel" ELSE "warning"
                     /\ w.log[2] = Entry("addLabel", Released, n)
                     /\ w.prs[n].labels =
                           (IF k = 0 THEN prs'[n].labels \ {ReleaseMe} ELSE prs'[n].labels)
                              \cup {Released}
            /\ \A n \in 1..Len(prs'), label \in {ReleaseMe, TargetLabel("main")} :
                  LET w == AddLabelAfter(0, label, n)
                  IN /\ w.log = <<Entry("addLabel", label, n)>>
                     /\ w.prs[n].labels = prs'[n].labels \cup {label}]_vars

\* A run in which the removal of release-me failed and `released` was added
C34_Witness ==
    /\ last.ran
    /\ \E i \in Labelled(last, Released) :
          i > 1 /\ last.log[i - 1].op = "warning" /\ Len(last.log[i - 1].label) = 0

\* ---------------------------------------------------------------- C35
\* A pull request call returns in this step
CallStep(call) == calc.call = "none" /\ calc'.call = call

\* The paths of a list of changes
PathsOf(changes) == {changes[i].path : i \in 1..Len(changes)}

C36_TargetsIsolated ==
    [][CallStep("createReleasePullRequest") \/ CallStep("createVersionBumpPullRequest") =>
         \A b \in Targets \ {calc'.target} :
            /\ branches'[b] = branches[b]
            /\ \A n \in 1..Len(prs) :
                  prs[n].head = ReleaseBranch(b) \/ TargetLabel(b) \in prs[n].labels
                     => prs'[n] = prs[n]
            /\ \A n \in (Len(prs) + 1)..Len(prs') :
                  prs'[n].head # ReleaseBranch(b) /\ TargetLabel(b) \notin prs'[n].labels]_vars

\* A call for one target that moved its branch and edited its PR while the
\* PR of the other target is open
C36_Witness ==
    /\ calc.call \in {"createReleasePullRequest", "createVersionBumpPullRequest"}
    /\ Ops(calc.log, {"updateRef"}) # {}
    /\ Ops(calc.log, {"pulls.update"}) # {}
    /\ \E b \in Targets \ {calc.target} :
          /\ branches[b] # NoBranch
          /\ \E n \in 1..Len(prs) : prs[n].head = ReleaseBranch(b) /\ prs[n].state = "open"

\* ---------------------------------------------------------------- C37
\* The runs that started
Started == {p \in Runners : calc.runs[p].state # "idle"}

\* C37: when two runs for the same merged release execute concurrently (the
\* pull_request event of the merged PR and the push event of its merge
\* commit), then in every interleaving of their tag and release creations
\* there is at most one tag and one release per package version, and neither
\* run reports failure because the other created the tag or the release
\* first.
C37_ConcurrentRelease ==
    /\ \A s, t \in tags : s.name = t.name => s = t
    /\ \A i, j \in 1..Len(releases) : releases[i].tag = releases[j].tag => i = j
    /\ \A p \in Started : calc.runs[p].failed = 0

\* Both runs finished cutting the same release, and one of them was answered
\* that a tag or a release exists
C37_Witness ==
    /\ \A p \in Runners : calc.runs[p].state = "done" /\ Len(calc.runs[p].changes) > 0
    /\ calc.runs[1].ev # calc.runs[2].ev
    /\ \E p \in Runners : calc.runs[p].warnings > 0
    /\ \A p \in Runners : calc.runs[p].pc > 2

\* ---------------------------------------------------------------- C38
\* The answer to the request for page i
PageAt(i) == CompareRequest(calc.pages, i)

\* The loop stops at page i: the page is empty, has no bump-triggering
\* commit, or carries no rel="next" link
StopsAt(i) ==
    \/ Len(PageAt(i).commits) = 0
    \/ \A j \in 1..Len(PageAt(i).commits) : ~IsRelevant(PageAt(i).commits[j])
    \/ ~PageAt(i).next

\* The bump-triggering commits of the pages 1..n, in order
RECURSIVE RelevantUpTo(_)
RelevantUpTo(n) ==
    IF n = 0 THEN <<>>
    ELSE RelevantUpTo(n - 1) \o SelectSeq(PageAt(n).commits, IsRelevant)

PagesFetchedInOrder ==
    /\ \A i \in 1..Len(calc.fetched) : calc.fetched[i] = i
    /\ \A i \in 1..Len(calc.fetched) - 1 : ~StopsAt(i)
    /\ calc.returned =>
          /\ Len(calc.fetched) >= 1
          /\ StopsAt(Len(calc.fetched))
          /\ calc.allCommits = RelevantUpTo(Len(calc.fetched))
    /\ ~calc.returned => Len(calc.fetched) = calc.page - 1

\* C38: getAllCommitsSinceLastRelease terminates for every finite sequence
\* of result pages: it fetches the pages in increasing order, stops at the
\* first page that is empty, contains no bump-triggering commit or carries no
\* rel="next" link, and returns, in order, exactly the bump-triggering
\* commits of the pages it fetched.
C38_PagingTerminates == []PagesFetchedInOrder /\ <>calc.returned

\* The loop left at its third page, a page without a bump-triggering commit
\* that carries rel="next", with commits of two pages collected
C38_Witness ==
    /\ calc.returned
    /\ Len(calc.fetched) = 3
    /\ PageAt(3).next
    /\ Len(PageAt(3).commits) > 0
    /\ Len(calc.allCommits) > 2

\* ---------------------------------------------------------------- C39
\* The commits since the last release that the run `last'` finds for the
\* package, those that bump no version included
CommitsOf(packagePath) ==
    IF ~Read.headExists THEN <<>>
    ELSE getCommitsSinceLastRelease(packagePath,
            getAllCommitsSinceLastReleaseUnfiltered(World(last'.ev, 0), last'.ev))

\* Every commit of the package maps to the bump `none`
OnlyNone(packagePath) ==
    \A i \in 1..Len(CommitsOf(packagePath)) :
       determineVersionBump(<<CommitsOf(packagePath)[i]>>) = "none"

\* The tags of a package
TagsOf(names, packagePath) == {t \in names : t.pkg = TagName(packagePath, NoVer).pkg}

\* C39: a package whose commits since the last release all map to the bump
\* `none` is never added to the change set of the run: the run gives it no
\* new version, no changelog entry, no manifest edit, no tag and no release,
\* whatever the other packages of the manifest do.
C39_NoneIsSkipped ==
    [][RunStep =>
         \A p \in DOMAIN Read.manifest :
            OnlyNone(p) =>
               /\ p \notin PathsOf(Read.changes)
               /\ \A i \in 1..Len(last'.cut) : last'.cut[i].path # p
               /\ TagsOf(TagNames(tags'), p) = TagsOf(TagNames(tags), p)
               /\ TagsOf(ReleaseTags(releases'), p) = TagsOf(ReleaseTags(releases), p)
               /\ \A t \in Targets :
                     branches'[t] # branches[t] /\ branches'[t] # NoBranch =>
                        /\ p \in DOMAIN last'.ev.wc
                        /\ branches'[t].manifest[p] = last'.ev.wc[p]
                        /\ \A f \in branches'[t].commit.files :
                              StartsWith(f, p) => \E q \in PathsOf(Read.changes) : StartsWith(f, q)]_vars

\* A run that releases one package while another package has commits, all of
\* them mapping to the bump `none`
C39_Witness ==
    /\ last.ran
    /\ last.cut # <<>>
    /\ \E p \in DOMAIN manifest :
          /\ \A i \in 1..Len(last.cut) : last.cut[i].path # p
          /\ \E i \in 1..Len(history) :
                /\ history[i].type = "chore" /\ history[i].pr = 0
                /\ \E f \in history[i].files : StartsWith(f, p)

====
